---- MODULE Spec2Model ----
(***************************************************************************)
(* strict_hdds: the EFI cache group (one optional SSD, one or more HDDs)   *)
(* and the two layout drivers that edit it online,                         *)
(*   layout_efi_bcache_lvm_ext4.py  (bcache + LVM + ext4)                  *)
(*   layout_efi_bcachefs.py         (bcachefs)                             *)
(* together with the physical device graph the drivers act on, and the    *)
(* functions of util.py that read and write a device byte by byte:        *)
(* the bcache superblock (SpecBcache), the ESP probe of a GPT disk        *)
(* (SpecGpt) and initializeDisk (SpecDisk), and the functions that read   *)
(* the composed bcache devices from /dev and /sys (SpecSysfs).            *)
(*                                                                         *)
(* A device path is a number: disk d is d, partition n of disk d is        *)
(* 10*d + n (devPathDiskToPartition appends the partition id to the disk   *)
(* path), and Python's None is 0.                                          *)
(***************************************************************************)
EXTENDS Integers, Sequences, FiniteSets, TLC

VARIABLES
    variant,    \* which layout module drives the group
    created,    \* TRUE once a StorageLayoutImpl instance was returned
    cg,         \* the instance's _cg (EfiCacheGroup)
    phys,       \* the physical device graph
    call,       \* the last call: its inputs, outcome and issued operations
    ncalls,     \* the number of calls made so far
    blkdev,     \* the block device a function of util.py reads or writes
    ucall       \* the last call of a function of util.py on that device

layoutVars == <<variant, created, cg, phys, call, ncalls>>
utilVars == <<blkdev, ucall>>
vars == <<variant, created, cg, phys, call, ncalls, blkdev, ucall>>

\* the layout drivers are followed without the content of any one device
NoDevice == [kind |-> "none"]
NoUtilCall == [op |-> "none"]

\* ------------------------------------------------------------- bounds
NumSsd == 2     \* SSD-classified fixed disks of the machine
NumHdd == 2     \* rotational fixed disks of the machine

None == 0

Ssds == 1..NumSsd
Hdds == (NumSsd + 1)..(NumSsd + NumHdd)
UsbDisk == NumSsd + NumHdd + 1          \* a disk that is not a fixed disk
AllDisks == Ssds \cup Hdds \cup {UsbDisk}

\* a disk list that does not leave the USB disks out
getDevPathListForFixedDisk_with_usb == Ssds \cup Hdds \cup {UsbDisk}

\* Util.getDevPathListForFixedDisk(): USB disks are left out
getDevPathListForFixedDisk == Ssds \cup Hdds

\* util.isBlkDevSsdOrHdd: TRUE for a non-rotational device
isBlkDevSsdOrHdd(devPath) == devPath \in Ssds

\* util.devPathDiskToPartition: the partition id appended to the disk path
devPathDiskToPartition(diskDevPath, partitionId) == diskDevPath * 10 + partitionId

\* util.devPathPartitionToDisk, and the partition id the path ends with
devPathPartitionToDisk(partitionDevPath) == partitionDevPath \div 10
devPathPartitionId(partitionDevPath) == partitionDevPath % 10

Min(a, b) == IF a <= b THEN a ELSE b
SeqToSet(s) == {s[i] : i \in DOMAIN s}
Perms(S) == {f \in [1..Cardinality(S) -> S] : \A i, j \in DOMAIN f : f[i] = f[j] => i = j}
RemoveFirst(s, x) ==
    LET i == CHOOSE k \in DOMAIN s : s[k] = x /\ \A j \in 1..(k - 1) : s[j] # x
    IN  SubSeq(s, 1, i - 1) \o SubSeq(s, i + 1, Len(s))

\* ------------------------------------------------- EfiCacheGroup (model)
EfiCacheGroup ==
    [ssd |-> None, ssdEspParti |-> None, ssdSwapParti |-> None,
     ssdCacheParti |-> None, hddList |-> <<>>, bootHdd |-> None]

\* addSsd that leaves the boot HDD designated
add_ssd_keeps_bootHdd(g, ssd) ==
    [g EXCEPT !.ssd = ssd,
              !.ssdEspParti = devPathDiskToPartition(ssd, 1),
              !.ssdSwapParti = devPathDiskToPartition(ssd, 2),
              !.ssdCacheParti = devPathDiskToPartition(ssd, 3)]

\* addSsd: records the 3-way partition set {ESP, swap, cache}; bootHdd = None
add_ssd(g, ssd) ==
    [g EXCEPT !.ssd = ssd,
              !.ssdEspParti = devPathDiskToPartition(ssd, 1),
              !.ssdSwapParti = devPathDiskToPartition(ssd, 2),
              !.ssdCacheParti = devPathDiskToPartition(ssd, 3),
              !.bootHdd = None]

\* addHdd: appends; the first HDD of a group without SSD becomes bootHdd
add_hdd(g, hdd) ==
    [g EXCEPT !.hddList = Append(@, hdd),
              !.bootHdd = IF g.ssd = None /\ g.hddList = <<>> THEN hdd ELSE @]

\* removeSsd that promotes no HDD
remove_ssd_promotes_none(g) ==
    [g EXCEPT !.ssd = None, !.ssdEspParti = None, !.ssdSwapParti = None,
              !.ssdCacheParti = None]

\* removeSsd: clears the SSD fields and promotes hddList[0]
remove_ssd(g) ==
    [g EXCEPT !.ssd = None, !.ssdEspParti = None, !.ssdSwapParti = None,
              !.ssdCacheParti = None,
              !.bootHdd = IF g.hddList = <<>> THEN None ELSE g.hddList[1]]

\* removeHdd that promotes the first remaining HDD whatever disk is removed
remove_hdd_always_promotes(g, hdd) ==
    LET rest == RemoveFirst(g.hddList, hdd)
    IN  [g EXCEPT !.hddList = rest,
                  !.bootHdd = IF rest = <<>> THEN None ELSE rest[1]]

\* removeHdd: removes the disk; a removed bootHdd is replaced by the first
\* remaining HDD
remove_hdd(g, hdd) ==
    LET rest == RemoveFirst(g.hddList, hdd)
    IN  [g EXCEPT !.hddList = rest,
                  !.bootHdd = IF g.bootHdd = hdd
                              THEN (IF rest = <<>> THEN None ELSE rest[1])
                              ELSE @]

boot_disk(g) == g.bootHdd
get_hdd_data_partition(g, disk) == devPathDiskToPartition(disk, 2)

\* ------------------------------------------------- the physical graph
PhysInit ==
    [cacheDevs   |-> {},    \* partitions registered as bcache cache devices
     backingDevs |-> {},    \* partitions registered as bcache backing devices;
                            \* each has a composed /dev/bcacheN, named by it
     attached    |-> {},    \* backing devices attached to the cache device
     vgPvs       |-> {},    \* composed devices that are PVs of the volume group
     fsDevs      |-> {},    \* member partitions of the bcachefs filesystem
     rootLv      |-> FALSE, \* the root logical volume exists
     mounted     |-> FALSE] \* the root filesystem is mounted

Op(name, dev, devs) == [name |-> name, dev |-> dev, devs |-> devs]

\* the effect of one physical operation that succeeds
Apply(p, op) ==
    CASE op.name = "makeAndRegisterBackingDevice" ->
            [p EXCEPT !.backingDevs = @ \cup {op.dev}, !.cacheDevs = @ \ {op.dev}]
      [] op.name = "makeAndRegisterCacheDevice" ->
            [p EXCEPT !.cacheDevs = @ \cup {op.dev}, !.backingDevs = @ \ {op.dev},
                      !.attached = @ \ {op.dev}]
      [] op.name = "attachCacheDevice" ->
            [p EXCEPT !.attached = IF op.dev \in p.cacheDevs
                                   THEN @ \cup (SeqToSet(op.devs) \cap p.backingDevs)
                                   ELSE @]
      [] op.name = "unregisterCacheDevice" ->
            [p EXCEPT !.cacheDevs = @ \ {op.dev}, !.attached = {}]
      [] op.name = "stopBackingDevice" ->
            [p EXCEPT !.backingDevs = @ \ {op.dev}, !.attached = @ \ {op.dev}]
      [] op.name = "addPvToVg" ->
            [p EXCEPT !.vgPvs = @ \cup {op.dev}]
      [] op.name = "vgreduce" ->
            [p EXCEPT !.vgPvs = @ \ {op.dev}]
      [] op.name = "createLvWithDefaultSize" ->
            [p EXCEPT !.rootLv = TRUE]
      [] op.name = "mount" ->
            [p EXCEPT !.mounted = TRUE]
      [] op.name = "umount" ->
            [p EXCEPT !.mounted = FALSE]
      [] op.name = "scanAndRegisterAll" ->
            LET found == SeqToSet(op.devs)
                caches == {d \in found : isBlkDevSsdOrHdd(devPathPartitionToDisk(d))}
            IN  [p EXCEPT !.cacheDevs = @ \cup caches,
                          !.backingDevs = @ \cup (found \ caches),
                          !.attached = @ \cup (IF caches = {} THEN {} ELSE found \ caches)]
      [] op.name = "activateAll" ->
            [p EXCEPT !.vgPvs = @ \cup SeqToSet(op.devs),
                      !.rootLv = @ \/ op.devs # <<>>]
      [] op.name = "createBcachefs" ->
            [p EXCEPT !.fsDevs = SeqToSet(op.devs)]
      [] op.name = "bcachefs_device_add" ->
            [p EXCEPT !.fsDevs = @ \cup {op.dev}]
      [] op.name = "removeDevice" ->
            [p EXCEPT !.fsDevs = @ \ {op.dev}]
      [] OTHER -> p     \* initializeDisk, pvmove, makeDevice: no change of membership

RECURSIVE ApplyAll(_, _)
ApplyAll(p, ops) ==
    IF ops = <<>> THEN p ELSE ApplyAll(Apply(p, Head(ops)), Tail(ops))

\* A None device path never reaches a tool: the wrapper raises TypeError.
FirstInvalid(steps) ==
    IF \E i \in DOMAIN steps : steps[i].dev = None
    THEN CHOOSE i \in DOMAIN steps :
            steps[i].dev = None /\ \A j \in 1..(i - 1) : steps[j].dev # None
    ELSE Len(steps) + 1

\* Runs the driver's physical steps in order.  failAt = k > 0: the k-th step
\* is issued and fails (the tool exits non-zero, cmdCall raises) with no
\* effect; failAt = 0: every tool succeeds.
Run(p, steps, failAt) ==
    LET n == Len(steps)
        forced == FirstInvalid(steps)
        ext == IF failAt = 0 THEN n + 1 ELSE failAt
        k == Min(Min(forced, ext), n + 1)
    IN  [phys |-> ApplyAll(p, SubSeq(steps, 1, k - 1)),
         ops |-> IF k > n THEN steps
                 ELSE IF forced <= ext THEN SubSeq(steps, 1, k - 1)
                 ELSE SubSeq(steps, 1, k),
         status |-> IF k > n THEN "ok"
                    ELSE IF forced <= ext THEN "TypeError"
                    ELSE "CalledProcessError"]

\* util.bcacheFindByBackingDevice: every /dev/bcacheN of the glob passes the
\* test (it is made on devPath, never on fn), so the first entry of the glob
\* is returned, whatever it backs; None when no composed device exists.
bcacheFindByBackingDevice(p, devPath) ==
    IF devPath = None \/ p.backingDevs = {} THEN {None} ELSE p.backingDevs

Result(g, p, ops, status, ret) ==
    [cg |-> g, phys |-> p, ops |-> ops, status |-> status, ret |-> ret]

\* ------------------------------------------- EfiCacheGroup preconditions
\* addSsd is legal only when no SSD is present; a violation is a defensive
\* assertion of the model
can_add_ssd(g) == g.ssd = None

\* removeHdd fails with LastDiskError when it is the only HDD remaining
is_last_hdd(g, hdd) == Len(g.hddList) <= 1

\* HandyUtil.cgFindByBackingDeviceList: the composed device of every HDD's
\* data partition, each looked up with findByBackingDevice (one glob order
\* per call, hence one answer for every lookup of the list)
cgFindByBackingDeviceList(g, p) ==
    IF g.hddList = <<>> THEN {<<>>}
    ELSE {[i \in DOMAIN g.hddList |-> found] :
            found \in bcacheFindByBackingDevice(p, get_hdd_data_partition(g, g.hddList[1]))}

PvmoveExpectedRc == 5

\* ------------------------------------------ steps shared by both drivers
\* add_disk calls cg.add_ssd(disk) before it issues any physical operation:
\* an illegal addSsd stops the call with nothing issued and nothing recorded
AddSsdRejected_after_make(g, p) ==
    {Result(g, Apply(p, Op("makeAndRegisterCacheDevice", g.ssdCacheParti, <<>>)),
            <<Op("makeAndRegisterCacheDevice", g.ssdCacheParti, <<>>)>>,
            "AssertionError", FALSE)}
AddSsdRejected(g, p) == {Result(g, p, <<>>, "AssertionError", FALSE)}

\* remove_disk: "check if swap is in use"
SwapIsInUse_unchecked(g, swapInUse) == FALSE
SwapIsInUse(g, swapInUse) == g.ssdSwapParti # None /\ swapInUse

\* remove_disk: "check for last hdd"
CheckLastHdd_empty_only(g) == Len(g.hddList) < 1
CheckLastHdd(g) == Len(g.hddList) <= 1

\* remove_disk: the exit code of pvmove that lets the removal go on
PvmoveFailed_nonzero(rc) == rc # PvmoveExpectedRc /\ rc # 0
PvmoveFailed(rc) == rc # PvmoveExpectedRc

\* "return lastBootHdd != self._cg.boot_disk"
BootDiskChanged_always(lastBootHdd, g) == TRUE
BootDiskChanged(lastBootHdd, g) == lastBootHdd # boot_disk(g)

\* --------------------------------------- layout_efi_bcache_lvm_ext4.py
\* StorageLayoutImpl.add_disk.  The set of outcomes of one call.
Lvm_add_disk(g, p, disk, failAt) ==
    IF disk \notin getDevPathListForFixedDisk
    THEN {Result(g, p, <<>>, "AddDiskError_NOT_DISK", FALSE)}
    ELSE
    LET lastBootHdd == boot_disk(g)
        init == Op("initializeDisk", disk, <<>>)
        p1 == Apply(p, init)
    IN  IF isBlkDevSsdOrHdd(disk)
        THEN IF ~can_add_ssd(g)
             THEN AddSsdRejected(g, p)
             ELSE
             LET g1 == add_ssd(g, disk)
                 parti == g1.ssdCacheParti
                 make == Op("makeAndRegisterCacheDevice", parti, <<>>)
             IN  {LET r == Run(p1, <<make, Op("attachCacheDevice", parti, devs)>>, failAt)
                  IN  Result(g1, r.phys, <<init>> \o r.ops, r.status,
                             r.status = "ok" /\ BootDiskChanged(lastBootHdd, g1))
                  : devs \in cgFindByBackingDeviceList(g1, Apply(p1, make))}
        ELSE
             \* line 168 asks the group for the SSD's cache partition, and
             \* line 171 reads self.cg, an attribute the class never sets
             LET g1 == add_hdd(g, disk)
                 parti == g1.ssdCacheParti
                 r == Run(p1, <<Op("makeAndRegisterBackingDevice", parti, <<>>)>>, failAt)
             IN  {Result(g1, r.phys, <<init>> \o r.ops,
                         IF r.status = "ok" THEN "AttributeError" ELSE r.status, FALSE)}

\* a test that takes every disk for an HDD of the group
IsGroupHdd_any(g, disk) == TRUE

\* "disk in self._cg.get_hdd_list()": the second branch of remove_disk
IsGroupHdd(g, disk) == disk \in SeqToSet(g.hddList)

\* StorageLayoutImpl.remove_disk.  rc is the exit code of pvmove.
Lvm_remove_disk(g, p, disk, swapInUse, rc, failAt) ==
    LET lastBootHdd == boot_disk(g) IN
    IF g.ssd # None /\ disk = g.ssd
    THEN IF SwapIsInUse(g, swapInUse)
         THEN {Result(g, p, <<>>, "RemoveDiskError_SWAP_IS_IN_USE", FALSE)}
         ELSE
         LET r == Run(p, <<Op("unregisterCacheDevice", g.ssdCacheParti, <<>>)>>, failAt)
         IN  IF r.status = "ok"
             THEN {Result(remove_ssd(g), r.phys, r.ops, "ok",
                          BootDiskChanged(lastBootHdd, remove_ssd(g)))}
             ELSE {Result(g, r.phys, r.ops, r.status, FALSE)}
    ELSE IF IsGroupHdd(g, disk)
    THEN IF CheckLastHdd(g)
         THEN {Result(g, p, <<>>, "RemoveDiskError_CAN_NOT_REMOVE_LAST_HDD", FALSE)}
         ELSE
         {LET pvmove == Op("pvmove", bcacheDev, <<>>)
              r == Run(p, <<Op("vgreduce", bcacheDev, <<>>),
                            Op("stopBackingDevice", bcacheDev, <<>>)>>, failAt)
          IN  IF bcacheDev = None
              THEN Result(g, p, <<>>, "TypeError", FALSE)
              ELSE IF PvmoveFailed(rc)
              THEN Result(g, p, <<pvmove>>, "RemoveDiskError_failed", FALSE)
              ELSE IF r.status # "ok"
              THEN Result(g, r.phys, <<pvmove>> \o r.ops, r.status, FALSE)
              ELSE IF is_last_hdd(g, disk)
              THEN Result(g, r.phys, <<pvmove>> \o r.ops, "LastDiskError", FALSE)
              ELSE Result(remove_hdd(g, disk), r.phys, <<pvmove>> \o r.ops, "ok",
                          BootDiskChanged(lastBootHdd, remove_hdd(g, disk)))
          : bcacheDev \in bcacheFindByBackingDevice(p, get_hdd_data_partition(g, disk))}
    ELSE {Result(g, p, <<>>, "AssertionError", FALSE)}

\* LvmUtil.rootLvDevPath: a device path that is no disk and no partition
rootLvDevPath == 10 * (NumSsd + NumHdd + 2)

\* EfiCacheGroup.dev_boot: the SSD's ESP, else the boot HDD's ESP
dev_boot(g) ==
    IF g.ssd # None THEN g.ssdEspParti
    ELSE IF g.bootHdd # None THEN devPathDiskToPartition(g.bootHdd, 1)
    ELSE None

RECURSIVE AddHdds(_, _)
AddHdds(g, hdd_list) ==
    IF hdd_list = <<>> THEN g
    ELSE AddHdds(add_hdd(g, Head(hdd_list)), Tail(hdd_list))

\* HandyUtil.cgGetSsdAndHddList: at most one SSD, at least one HDD
cgGetSsdAndHddList(ssd_list, hdd_list) ==
    IF Len(ssd_list) > 1 THEN "CreateError_MULTIPLE_SSD"
    ELSE IF Len(hdd_list) = 0 THEN "CreateError_NO_DISK_WHEN_CREATE"
    ELSE "ok"

\* create_and_mount(disk_list, mount_dir); disk_list is given split into its
\* SSD-classified and its rotational disks
Lvm_create_and_mount(p, ssd_list, hdd_list, failAt) ==
    IF cgGetSsdAndHddList(ssd_list, hdd_list) # "ok"
    THEN {Result(EfiCacheGroup, p, <<>>, cgGetSsdAndHddList(ssd_list, hdd_list), FALSE)}
    ELSE
    LET ssd == IF ssd_list = <<>> THEN None ELSE ssd_list[1]
        n == Len(hdd_list)
        g0 == IF ssd # None THEN add_ssd(EfiCacheGroup, ssd) ELSE EfiCacheGroup
        g1 == AddHdds(g0, hdd_list)
        inits == (IF ssd # None THEN <<Op("initializeDisk", ssd, <<>>)>> ELSE <<>>)
                 \o [i \in 1..n |-> Op("initializeDisk", hdd_list[i], <<>>)]
        p1 == ApplyAll(p, inits)
        datas == [i \in 1..n |-> get_hdd_data_partition(g1, hdd_list[i])]
        \* hddDict[hdd] = findByBackingDevice(parti), after the i-th device is made
        finds == {f \in [1..n -> p1.backingDevs \cup SeqToSet(datas)] :
                    \A i \in 1..n : f[i] \in p1.backingDevs \cup {datas[j] : j \in 1..i}}
    IN  {LET steps ==
                [i \in 1..n |-> Op("makeAndRegisterBackingDevice", datas[i], <<>>)]
                \o <<Op("makeAndRegisterCacheDevice", g1.ssdCacheParti, <<>>),
                     Op("attachCacheDevice", g1.ssdCacheParti, g1.hddList)>>
                \o [i \in 1..n |-> Op("addPvToVg", found[i], <<>>)]
                \o <<Op("createLvWithDefaultSize", rootLvDevPath, <<>>),
                     Op("mount", rootLvDevPath, <<dev_boot(g1)>>)>>
             r == Run(p1, steps, failAt)
         IN  Result(g1, r.phys, inits \o r.ops, r.status, FALSE)
         : found \in finds}

\* HandyUtil.lvmEnsureVgLvAndGetDiskList: the disks of the volume group's
\* physical volumes, in the order the volume manager lists them; ParseError
\* when the volume group or the root LV does not exist
lvmEnsureVgLvAndGetDiskList(p) ==
    IF p.vgPvs = {} \/ ~p.rootLv THEN {<<>>}
    ELSE Perms({devPathPartitionToDisk(pv) : pv \in p.vgPvs})

\* BcacheUtil.getBcacheDevFromDevPath: the composed device of a disk, None
\* when its data partition is no registered backing device
getBcacheDevFromDevPath(p, disk) ==
    IF devPathDiskToPartition(disk, 2) \in p.backingDevs
    THEN devPathDiskToPartition(disk, 2) ELSE None

\* HandyUtil.cgGetSsdPartitions: (ESP, swap, cache) of the SSD, the cache
\* partition being the third when there is a swap partition and the second
\* otherwise; three None for no SSD; "ParseError" for a disk without cache
\* partition
cgGetSsdPartitions(p, ssd) ==
    IF ssd = None THEN <<None, None, None>>
    ELSE IF devPathDiskToPartition(ssd, 3) \in p.cacheDevs
    THEN <<devPathDiskToPartition(ssd, 1), devPathDiskToPartition(ssd, 2),
           devPathDiskToPartition(ssd, 3)>>
    ELSE IF devPathDiskToPartition(ssd, 2) \in p.cacheDevs
    THEN <<devPathDiskToPartition(ssd, 1), None, devPathDiskToPartition(ssd, 2)>>
    ELSE <<>>

\* HandyUtil.bcacheCheckHddAndItsBcacheDev: the HDD's composed device is
\* cached by ssdCacheParti exactly when there is one
bcacheCheckHddAndItsBcacheDev(p, ssdCacheParti, hdd) ==
    /\ (ssdCacheParti # None) <=> (devPathDiskToPartition(hdd, 2) \in p.attached)
    /\ ssdCacheParti # None => ssdCacheParti \in p.cacheDevs

\* HandyUtil.cgGetSsdFromBootDev: the disk of boot_dev unless it is an HDD
\* of the group
cgGetSsdFromBootDev(boot_dev, hdds) ==
    IF devPathPartitionToDisk(boot_dev) \in hdds THEN None
    ELSE devPathPartitionToDisk(boot_dev)

Group(ssd, partis, hddList, bootHdd) ==
    [ssd |-> ssd, ssdEspParti |-> partis[1], ssdSwapParti |-> partis[2],
     ssdCacheParti |-> partis[3], hddList |-> hddList, bootHdd |-> bootHdd]

fsTypeExt4 == "ext4"

\* parse: bootHdd is None with an SSD, else the disk of boot_dev
ParseBootHdd_first(ssd, boot_dev, diskList) == IF ssd # None THEN None ELSE diskList[1]
ParseBootHdd(ssd, boot_dev, diskList) ==
    IF ssd # None THEN None ELSE devPathPartitionToDisk(boot_dev)

\* parse(boot_dev, root_dev); fsType is what Util.getBlkDevFsType answers for
\* the root LV.  Probes only: every outcome leaves the device graph as it is.
Lvm_parse(p, boot_dev, root_dev, fsType) ==
    {LET hdds == SeqToSet(diskList)
         ssd == cgGetSsdFromBootDev(boot_dev, hdds)
         partis == cgGetSsdPartitions(p, ssd)
         fail(status) == Result(EfiCacheGroup, p, <<>>, status, FALSE)
     IN  IF diskList = <<>> THEN fail("ParseError_NO_VG")
         ELSE IF \E d \in hdds : getBcacheDevFromDevPath(p, d) = None
         THEN fail("ParseError_NON_BCACHE_PV")
         ELSE IF root_dev # rootLvDevPath THEN fail("ParseError_ROOT_DEV_MUST_BE")
         ELSE IF fsType # fsTypeExt4 THEN fail("ParseError_ROOT_PARTITION_FS_SHOULD_BE")
         ELSE IF partis = <<>> THEN fail("ParseError_SSD_PARTITIONS")
         ELSE IF partis[1] # None /\ partis[1] # boot_dev
         THEN fail("ParseError_BOOT_DEV_MUST_BE")
         ELSE IF \E d \in hdds : ~bcacheCheckHddAndItsBcacheDev(p, partis[3], d)
         THEN fail("ParseError_HDD_CHECK")
         ELSE Result(Group(ssd, partis, diskList, ParseBootHdd(ssd, boot_dev, diskList)),
                     p, <<>>, "ok", FALSE)
     : diskList \in lvmEnsureVgLvAndGetDiskList(p)}

\* detect_and_mount: "extra disk needed"
ExtraDiskNeeded_declared_only(lvmHddList, hdd_list) ==
    SeqToSet(hdd_list) \ SeqToSet(lvmHddList) # {}
ExtraDiskNeeded(lvmHddList, hdd_list) ==
    SeqToSet(lvmHddList) \ SeqToSet(hdd_list) # {}

\* detect_and_mount(disk_list, mount_dir).  onDisk is the layout the disks
\* hold from an earlier life (EfiCacheGroup: none), which scanAndRegisterAll
\* and activateAll bring up.
BringUp(onDisk) ==
    LET datas == [i \in DOMAIN onDisk.hddList |->
                    get_hdd_data_partition(onDisk, onDisk.hddList[i])]
    IN  <<Op("scanAndRegisterAll", rootLvDevPath,
             (IF onDisk.ssd = None THEN <<>> ELSE <<onDisk.ssdCacheParti>>) \o datas),
          Op("activateAll", rootLvDevPath, datas)>>

Lvm_detect_and_mount(p, ssd_list, hdd_list, onDisk, failAt) ==
    LET r0 == Run(p, BringUp(onDisk), failAt)
        p2 == r0.phys
        ssd == IF ssd_list = <<>> THEN None ELSE ssd_list[1]
        partis == cgGetSsdPartitions(p2, ssd)
        fail(status) == Result(EfiCacheGroup, p2, r0.ops, status, FALSE)
    IN  IF r0.status # "ok" THEN {fail(r0.status)}
        ELSE IF cgGetSsdAndHddList(ssd_list, hdd_list) # "ok"
        THEN {fail(cgGetSsdAndHddList(ssd_list, hdd_list))}
        ELSE IF partis = <<>> THEN {fail("ParseError_SSD_PARTITIONS")}
        ELSE
        {IF lvmHddList = <<>> THEN fail("ParseError_NO_VG")
         ELSE IF ExtraDiskNeeded(lvmHddList, hdd_list) THEN fail("ParseError_extra_disk_needed")
         ELSE IF \E d \in SeqToSet(lvmHddList) : getBcacheDevFromDevPath(p2, d) = None
         THEN fail("ParseError_NON_BCACHE_PV")
         ELSE IF \E d \in SeqToSet(lvmHddList) : ~bcacheCheckHddAndItsBcacheDev(p2, partis[3], d)
         THEN fail("ParseError_HDD_CHECK")
         ELSE
         LET bootDisk == IF ssd # None THEN None ELSE lvmHddList[1]
             bootParti == IF ssd # None THEN partis[1] ELSE devPathDiskToPartition(bootDisk, 1)
             r == Run(p2, <<Op("mount", rootLvDevPath, <<bootParti>>)>>,
                      IF failAt > 2 THEN failAt - 2 ELSE 0)
         IN  Result(IF r.status = "ok" THEN Group(ssd, partis, lvmHddList, bootDisk)
                    ELSE EfiCacheGroup,
                    r.phys, r0.ops \o r.ops, r.status, FALSE)
         : lvmHddList \in lvmEnsureVgLvAndGetDiskList(p2)}

\* ------------------------------------------------ layout_efi_bcachefs.py
\* StorageLayoutImpl.__init__(self, mount_dir) takes one argument;
\* create_and_mount and parse call StorageLayoutImpl() with none.
BcachefsInitParams == 1
BcachefsInitArgs == 0

\* StorageLayoutImpl.add_disk
Bcachefs_add_disk(g, p, disk, failAt) ==
    IF disk \notin getDevPathListForFixedDisk
    THEN {Result(g, p, <<>>, "AddDiskError_NOT_DISK", FALSE)}
    ELSE
    LET init == Op("initializeDisk", disk, <<>>)
        p1 == Apply(p, init)
    IN  IF isBlkDevSsdOrHdd(disk)
        THEN IF ~can_add_ssd(g)
             THEN AddSsdRejected(g, p)
             ELSE
             LET g1 == add_ssd(g, disk)
                 r == Run(p1, <<Op("makeDevice", g1.ssdCacheParti, <<>>)>>, failAt)
             IN  {Result(g1, r.phys, <<init>> \o r.ops, r.status, r.status = "ok")}
        ELSE
             LET lastBootHdd == boot_disk(g)
                 g1 == add_hdd(g, disk)
                 parti == get_hdd_data_partition(g1, disk)
                 r == Run(p1, <<Op("makeDevice", parti, <<>>),
                                Op("bcachefs_device_add", parti, <<>>)>>, failAt)
             IN  {Result(g1, r.phys, <<init>> \o r.ops, r.status,
                         r.status = "ok" /\ BootDiskChanged(lastBootHdd, g1))}

\* StorageLayoutImpl.remove_disk
Bcachefs_remove_disk(g, p, devpath, swapInUse, failAt) ==
    IF g.ssd # None /\ devpath = g.ssd
    THEN IF SwapIsInUse(g, swapInUse)
         THEN {Result(g, p, <<>>, "RemoveDiskError_SWAP_IS_IN_USE", FALSE)}
         ELSE
         LET r == Run(p, <<Op("removeDevice", g.ssdCacheParti, <<>>)>>, failAt)
         IN  IF r.status = "ok"
             THEN {Result(remove_ssd(g), r.phys, r.ops, "ok", TRUE)}
             ELSE {Result(g, r.phys, r.ops, r.status, FALSE)}
    ELSE IF ~IsGroupHdd(g, devpath)
    THEN {Result(g, p, <<>>, "AssertionError", FALSE)}
    ELSE IF CheckLastHdd(g)
    THEN {Result(g, p, <<>>, "RemoveDiskError_CAN_NOT_REMOVE_LAST_HDD", FALSE)}
    ELSE
    LET lastBootHdd == boot_disk(g)
        r == Run(p, <<Op("removeDevice", get_hdd_data_partition(g, devpath), <<>>)>>, failAt)
    IN  IF r.status # "ok"
        THEN {Result(g, r.phys, r.ops, r.status, FALSE)}
        ELSE IF is_last_hdd(g, devpath)
        THEN {Result(g, r.phys, r.ops, "LastDiskError", FALSE)}
        ELSE {Result(remove_hdd(g, devpath), r.phys, r.ops, "ok",
                     BootDiskChanged(lastBootHdd, remove_hdd(g, devpath)))}

\* create_and_mount(ssd=None, hdd_list=None).  hddGiven is FALSE when the
\* hdd_list argument is None; sys_ssd and sys_hdd are what
\* Util.getDevPathListForFixedSsdAndHdd() answers.
Bcachefs_create_and_mount(p, ssdArg, hddGiven, hddArg, sys_ssd, sys_hdd, failAt) ==
    LET enumerate == ssdArg = None /\ ~hddGiven
        ssd == IF enumerate /\ Len(sys_ssd) = 1 THEN sys_ssd[1] ELSE ssdArg
        hdd_list == IF enumerate THEN sys_hdd ELSE hddArg
        g0 == IF ssd # None THEN add_ssd(EfiCacheGroup, ssd) ELSE EfiCacheGroup
        g1 == AddHdds(g0, hdd_list)
        inits == (IF ssd # None THEN <<Op("initializeDisk", ssd, <<>>)>> ELSE <<>>)
                 \o [i \in DOMAIN hdd_list |-> Op("initializeDisk", hdd_list[i], <<>>)]
        ssd_list2 == IF g1.ssd # None THEN <<g1.ssdCacheParti>> ELSE <<>>
        hdd_list2 == [i \in DOMAIN hdd_list |-> get_hdd_data_partition(g1, hdd_list[i])]
        r == Run(ApplyAll(p, inits),
                 <<Op("createBcachefs", rootLvDevPath, ssd_list2 \o hdd_list2)>>, failAt)
    IN  IF enumerate /\ Len(sys_ssd) > 1
        THEN {Result(EfiCacheGroup, p, <<>>, "CreateError_MULTIPLE_SSD", FALSE)}
        ELSE IF enumerate /\ Len(sys_hdd) = 0
        THEN {Result(EfiCacheGroup, p, <<>>, "CreateError_NO_DISK_WHEN_CREATE", FALSE)}
        ELSE IF ~enumerate /\ ~(hddGiven /\ Len(hddArg) > 0)
        THEN {Result(EfiCacheGroup, p, <<>>, "AssertionError", FALSE)}
        ELSE IF BcachefsInitArgs # BcachefsInitParams
        THEN {Result(EfiCacheGroup, p, <<>>, "TypeError", FALSE)}
        ELSE {Result(g1, r.phys, inits \o r.ops, r.status, FALSE)}

\* parse(boot_dev, root_dev); isEsp is what GptUtil.isEspPartition(boot_dev)
\* answers.  The SSD and the HDDs are those of the filesystem's member
\* devices.
Bcachefs_parse(p, boot_dev, isEsp) ==
    LET ssds == {devPathPartitionToDisk(d) : d \in p.fsDevs} \cap Ssds
        hdds == {devPathPartitionToDisk(d) : d \in p.fsDevs} \ Ssds
        ssd == IF ssds = {} THEN None ELSE CHOOSE d \in ssds : TRUE
        cache == IF ssd = None THEN None
                 ELSE CHOOSE d \in p.fsDevs : devPathPartitionToDisk(d) = ssd
        partis == IF ssd = None THEN <<None, None, None>>
                  ELSE <<devPathDiskToPartition(ssd, 1),
                         IF devPathPartitionId(cache) = 3
                         THEN devPathDiskToPartition(ssd, 2) ELSE None,
                         cache>>
        fail(status) == Result(EfiCacheGroup, p, <<>>, status, FALSE)
    IN  IF ~isEsp THEN {fail("ParseError_BOOT_DEV_IS_NOT_ESP")}
        ELSE IF ssd # None /\ ssd # devPathPartitionToDisk(boot_dev)
        THEN {fail("NameError")}
        ELSE IF BcachefsInitArgs # BcachefsInitParams
        THEN {fail("TypeError")}
        ELSE {Result(Group(ssd, partis, hddList,
                           ParseBootHdd(ssd, boot_dev, hddList)), p, <<>>, "ok", FALSE)
              : hddList \in Perms(hdds)}

\* StorageLayoutImpl.umount_and_dispose, the same in both layout modules:
\* self._mnt.umount(), del self._mnt, del self._cg; the bcache devices stay
\* registered ("FIXME: stop and unregister bcache")
umount_and_dispose(g, p, failAt) ==
    LET r == Run(p, <<Op("umount", rootLvDevPath, <<>>)>>, failAt)
    IN  {Result(IF r.status = "ok" THEN EfiCacheGroup ELSE g,
                r.phys, r.ops, r.status, FALSE)}

\* ------------------------------------------------------------ the machine
MaxFail == 2        \* the steps of an online edit that may be made to fail
MaxCalls == 3       \* the calls of one run

\* ordered lists of distinct rotational disks, and ascending lists of SSDs
HddLists == UNION {Perms(S) : S \in SUBSET Hdds}
Ascending(S) == CHOOSE f \in Perms(S) : \A i, j \in DOMAIN f : i < j => f[i] < f[j]
SsdLists == {Ascending(S) : S \in SUBSET Ssds}

\* The well-formed active groups of the data model (one optional SSD with or
\* without swap partition, at least one HDD, bootHdd a member HDD exactly
\* when there is no SSD): what parse hands to EfiCacheGroup(...).
ActiveGroups ==
    UNION {{[ssd |-> None, ssdEspParti |-> None, ssdSwapParti |-> None,
             ssdCacheParti |-> None, hddList |-> hl, bootHdd |-> hl[i]] :
                i \in DOMAIN hl} : hl \in HddLists \ {<<>>}}
    \cup
    {[ssd |-> s, ssdEspParti |-> devPathDiskToPartition(s, 1),
      ssdSwapParti |-> IF swap THEN devPathDiskToPartition(s, 2) ELSE None,
      ssdCacheParti |-> devPathDiskToPartition(s, IF swap THEN 3 ELSE 2),
      hddList |-> hl, bootHdd |-> None] :
        s \in Ssds, swap \in BOOLEAN, hl \in HddLists \ {<<>>}}

\* the bcachefs filesystem of a group: its cache and data partitions
BcachefsPhys(g) ==
    [PhysInit EXCEPT
        !.fsDevs = {get_hdd_data_partition(g, g.hddList[i]) : i \in DOMAIN g.hddList}
                   \cup (IF g.ssd = None THEN {} ELSE {g.ssdCacheParti}),
        !.mounted = TRUE]

\* The record of a call.  undoes: for a remove_disk that comes right after
\* an add_disk of the same disk, the group before that add_disk and how the
\* add_disk ended.
NoAdd == [pre |-> EfiCacheGroup, status |-> "none"]

Call(op, disk, swapInUse, rc, failAt, ssd_list, hdd_list, explicit, r) ==
    [op |-> op, disk |-> disk, swapInUse |-> swapInUse, rc |-> rc, failAt |-> failAt,
     ssd_list |-> ssd_list, hdd_list |-> hdd_list, explicit |-> explicit,
     status |-> r.status, ret |-> r.ret, ops |-> r.ops,
     pre |-> cg,
     undoes |-> IF op = "remove_disk" /\ call.op = "add_disk" /\ call.disk = disk
                THEN [pre |-> call.pre, status |-> call.status]
                ELSE NoAdd,
     boot_dev |-> None, root_dev |-> None, fsType |-> "none"]

ParseCall(boot_dev, root_dev, fsType, r) ==
    [Call("parse", None, FALSE, 0, 0, <<>>, <<>>, FALSE, r) EXCEPT
        !.boot_dev = boot_dev, !.root_dev = root_dev, !.fsType = fsType]

NoCall ==
    [op |-> "none", disk |-> None, swapInUse |-> FALSE, rc |-> 0, failAt |-> 0,
     ssd_list |-> <<>>, hdd_list |-> <<>>, explicit |-> FALSE,
     status |-> "none", ret |-> FALSE, ops |-> <<>>,
     pre |-> EfiCacheGroup,
     undoes |-> NoAdd,
     boot_dev |-> None, root_dev |-> None, fsType |-> "none"]

\* What the disks can hold at boot: no layout, or the layout of a well-formed
\* group.  Neither the order of the HDDs nor the boot HDD is on the disks.
OnDiskLayouts ==
    {EfiCacheGroup} \cup
    {g \in ActiveGroups :
        /\ g.hddList = Ascending(SeqToSet(g.hddList))
        /\ g.ssd = None => g.bootHdd = g.hddList[1]}

\* the device graph of a system running on a bcache+LVM layout: registered,
\* active and mounted
LvmPhys(onDisk) ==
    ApplyAll(PhysInit, BringUp(onDisk) \o <<Op("mount", rootLvDevPath, <<>>)>>)

\* A bcachefs instance is the one parse builds from a running group (no
\* call of the module returns one).  A bcache+LVM process starts with no
\* instance, on raw disks or on a system that runs the layout already.
Init ==
    /\ variant \in {"bcache_lvm", "bcachefs"}
    /\ created \in (IF variant = "bcachefs" THEN BOOLEAN ELSE {FALSE})
    /\ cg \in (IF created THEN ActiveGroups ELSE {EfiCacheGroup})
    /\ phys \in (IF created THEN {BcachefsPhys(cg)}
                 ELSE IF variant = "bcachefs" THEN {PhysInit}
                 ELSE {PhysInit} \cup {LvmPhys(g) : g \in OnDiskLayouts \ {EfiCacheGroup}})
    /\ call = NoCall
    /\ ncalls = 0
    /\ blkdev = NoDevice
    /\ ucall = NoUtilCall

\* The module-level entry points (create_and_mount, detect_and_mount, parse)
\* are the first call of a process; the calls that follow are made on the
\* instance.  A later create_and_mount would find what the first one found.
LvmCreateAndMount ==
    /\ ncalls = 0
    /\ ncalls' = ncalls + 1
    /\ variant = "bcache_lvm"
    /\ ~created
    /\ phys = PhysInit         \* the disks are raw: nothing was built on them
    /\ \E ssd_list \in SsdLists, hdd_list \in HddLists, failAt \in 0..(2 * NumHdd + 4) :
        \E r \in Lvm_create_and_mount(phys, ssd_list, hdd_list, failAt) :
            /\ failAt > 0 => r.status = "CalledProcessError"
            /\ created' = (r.status = "ok")
            /\ cg' = (IF r.status = "ok" THEN r.cg ELSE EfiCacheGroup)
            /\ phys' = r.phys
            /\ call' = Call("create_and_mount", None, FALSE, 0,
                            failAt, ssd_list, hdd_list, TRUE, r)
    /\ UNCHANGED <<variant, blkdev, ucall>>

BcachefsCreateAndMount ==
    /\ ncalls = 0
    /\ ncalls' = ncalls + 1
    /\ variant = "bcachefs"
    /\ ~created
    /\ \E ssdArg \in Ssds \cup {None}, hddGiven \in BOOLEAN,
          hddArg \in HddLists, sys_ssd \in SsdLists, sys_hdd \in HddLists :
        /\ ~hddGiven => hddArg = <<>>
        /\ (ssdArg = None /\ ~hddGiven) \/ (sys_ssd = <<>> /\ sys_hdd = <<>>)
        /\ \E r \in Bcachefs_create_and_mount(phys, ssdArg, hddGiven, hddArg,
                                               sys_ssd, sys_hdd, 0) :
            /\ call' = Call("create_and_mount", None, FALSE, 0, 0,
                            IF ssdArg = None /\ ~hddGiven THEN sys_ssd
                            ELSE IF ssdArg = None THEN <<>> ELSE <<ssdArg>>,
                            IF ssdArg = None /\ ~hddGiven THEN sys_hdd ELSE hddArg,
                            ~(ssdArg = None /\ ~hddGiven), r)
            /\ phys' = r.phys
            /\ UNCHANGED <<created, cg>>
    /\ UNCHANGED <<variant, blkdev, ucall>>

\* add_disk(disk): any disk of the machine that is not a member HDD
AddDisk ==
    /\ ncalls < MaxCalls
    /\ ncalls' = ncalls + 1
    /\ created
    /\ \E disk \in AllDisks \ SeqToSet(cg.hddList), failAt \in 0..MaxFail :
        \E r \in (IF variant = "bcache_lvm"
                  THEN Lvm_add_disk(cg, phys, disk, failAt)
                  ELSE Bcachefs_add_disk(cg, phys, disk, failAt)) :
            /\ failAt > 0 => r.status = "CalledProcessError"
            /\ cg' = r.cg
            /\ phys' = r.phys
            /\ call' = Call("add_disk", disk, FALSE, 0, failAt, <<>>, <<>>, FALSE, r)
    /\ UNCHANGED <<variant, created, blkdev, ucall>>

\* remove_disk(disk): any disk of the machine
RemoveDisk ==
    /\ ncalls < MaxCalls
    /\ ncalls' = ncalls + 1
    /\ created
    /\ \E disk \in AllDisks, swapInUse \in BOOLEAN, rc \in {0, 1, PvmoveExpectedRc},
          failAt \in 0..MaxFail :
        /\ swapInUse => disk = cg.ssd /\ cg.ssdSwapParti # None
        /\ rc # 0 => variant = "bcache_lvm" /\ disk \in SeqToSet(cg.hddList)
                     /\ Len(cg.hddList) > 1
        /\ \E r \in (IF variant = "bcache_lvm"
                     THEN Lvm_remove_disk(cg, phys, disk, swapInUse, rc, failAt)
                     ELSE Bcachefs_remove_disk(cg, phys, disk, swapInUse, failAt)) :
            /\ failAt > 0 => r.status = "CalledProcessError"
            /\ cg' = r.cg
            /\ phys' = r.phys
            /\ call' = Call("remove_disk", disk, swapInUse,
                            IF "pvmove" \in {r.ops[i].name : i \in DOMAIN r.ops} THEN rc ELSE 0,
                            failAt, <<>>, <<>>, FALSE, r)
    /\ UNCHANGED <<variant, created, blkdev, ucall>>

\* umount_and_dispose() of the instance
UmountAndDispose ==
    /\ ncalls < MaxCalls
    /\ ncalls' = ncalls + 1
    /\ created
    /\ \E failAt \in 0..1 :
        \E r \in umount_and_dispose(cg, phys, failAt) :
            /\ failAt > 0 => r.status = "CalledProcessError"
            /\ created' = (r.status # "ok")
            /\ cg' = r.cg
            /\ phys' = r.phys
            /\ call' = Call("umount_and_dispose", None, FALSE, 0, failAt,
                            <<>>, <<>>, FALSE, r)
    /\ UNCHANGED <<variant, blkdev, ucall>>

\* the ESP partitions of the machine's fixed disks
EspPartitions == {devPathDiskToPartition(d, 1) : d \in getDevPathListForFixedDisk}

\* parse(boot_dev, root_dev), the first call of a process on the running
\* system: the root filesystem is mounted.  A returned instance takes the
\* place of the one held.
Parse ==
    /\ ncalls = 0
    /\ ncalls' = ncalls + 1
    /\ phys.mounted
    /\ \E boot_dev \in EspPartitions, root_dev \in {rootLvDevPath, rootLvDevPath + 1},
          fsType \in {fsTypeExt4, "btrfs"}, isEsp \in BOOLEAN :
        /\ variant = "bcache_lvm" => isEsp /\ (fsType # fsTypeExt4 => root_dev = rootLvDevPath)
        /\ variant = "bcachefs" => root_dev = rootLvDevPath /\ fsType = fsTypeExt4
        /\ \E r \in (IF variant = "bcache_lvm"
                     THEN Lvm_parse(phys, boot_dev, root_dev, fsType)
                     ELSE Bcachefs_parse(phys, boot_dev, isEsp)) :
            /\ created' = (created \/ r.status = "ok")
            /\ cg' = (IF r.status = "ok" THEN r.cg ELSE cg)
            /\ phys' = r.phys
            /\ call' = ParseCall(boot_dev, root_dev, fsType, r)
    /\ UNCHANGED <<variant, blkdev, ucall>>

\* detect_and_mount(disk_list, mount_dir), the first call after a boot:
\* nothing is registered yet; the disks hold either no layout or the layout
\* of a well-formed group
LvmDetectAndMount ==
    /\ ncalls = 0
    /\ ncalls' = ncalls + 1
    /\ variant = "bcache_lvm"
    /\ ~created
    /\ phys = PhysInit
    /\ \E ssd_list \in SsdLists, hdd_list \in {Ascending(S) : S \in SUBSET Hdds},
          onDisk \in OnDiskLayouts, failAt \in 0..3 :
        \E r \in Lvm_detect_and_mount(phys, ssd_list, hdd_list, onDisk, failAt) :
            /\ failAt > 0 => r.status = "CalledProcessError"
            /\ created' = (r.status = "ok")
            /\ cg' = r.cg
            /\ phys' = r.phys
            /\ call' = Call("detect_and_mount", None, FALSE, 0,
                            failAt, ssd_list, hdd_list, TRUE, r)
    /\ UNCHANGED <<variant, blkdev, ucall>>

Next ==
    \/ Parse
    \/ LvmDetectAndMount
    \/ LvmCreateAndMount
    \/ BcachefsCreateAndMount
    \/ AddDisk
    \/ RemoveDisk
    \/ UmountAndDispose

Spec == Init /\ [][Next]_vars

\* ================================================================ claims
Members(g) == SeqToSet(g.hddList)
Issued(name) == \E i \in DOMAIN call.ops : call.ops[i].name = name
Edit == call.op \in {"add_disk", "remove_disk"}
Completed == call.status = "ok"

\* C1 (I5): in every state of a created group, after every add_disk and
\* remove_disk whether it completed or not, bootHdd is set exactly when no
\* SSD is recorded, and a set bootHdd is a member of hddList.
C1_BootHddIffNoSsd ==
    created =>
        /\ (cg.bootHdd # None) <=> (cg.ssd = None)
        /\ cg.bootHdd # None => cg.bootHdd \in Members(cg)

\* an SSD was added to a group that booted from an HDD
C1_Witness ==
    /\ created /\ call.op = "add_disk" /\ call.disk \in Ssds
    /\ call.pre.bootHdd # None /\ cg.ssd = call.disk /\ cg.bootHdd = None

\* C2 (I1): add_disk of an SSD-classified disk on a group that records an
\* SSD stops on the model's assertion: the recorded SSD and its partitions
\* stay as they were and no physical operation is issued.
C2_SecondSsdRejected ==
    (call.op = "add_disk" /\ call.disk \in Ssds /\ call.pre.ssd # None) =>
        /\ call.status = "AssertionError"
        /\ cg = call.pre
        /\ call.ops = <<>>

\* a second, different SSD was offered to a group with an SSD
C2_Witness ==
    /\ call.op = "add_disk" /\ call.disk \in Ssds
    /\ call.pre.ssd # None /\ call.pre.ssd # call.disk
    /\ cg.ssd = call.pre.ssd

\* C3 (P2, I4): remove_disk of the only HDD fails with
\* CAN_NOT_REMOVE_LAST_HDD, changes nothing in the model and issues no
\* physical operation; a created group always has at least one HDD.
C3_LastHddProtected ==
    /\ (call.op = "remove_disk" /\ call.disk \in Members(call.pre)
            /\ Len(call.pre.hddList) = 1) =>
        /\ call.status = "RemoveDiskError_CAN_NOT_REMOVE_LAST_HDD"
        /\ cg = call.pre
        /\ call.ops = <<>>
    /\ created => Len(cg.hddList) >= 1

\* the removal of the only HDD was asked for
C3_Witness ==
    /\ call.op = "remove_disk" /\ call.disk \in Members(call.pre)
    /\ Len(call.pre.hddList) = 1
    /\ call.status = "RemoveDiskError_CAN_NOT_REMOVE_LAST_HDD"

\* C4 (P3): a completed remove_disk of the bootHdd of an HDD-only group
\* leaves a bootHdd that is a member of the remaining hddList; a completed
\* remove_disk of the SSD leaves ssd = None and bootHdd = hddList[0].
C4_BootDiskRecomputed ==
    (call.op = "remove_disk" /\ Completed) =>
        /\ (call.pre.ssd = None /\ call.disk = call.pre.bootHdd) =>
                /\ cg.bootHdd \in Members(cg)
                /\ call.disk \notin Members(cg)
        /\ (call.pre.ssd # None /\ call.disk = call.pre.ssd) =>
                /\ cg.ssd = None
                /\ cg.hddList # <<>>
                /\ cg.bootHdd = cg.hddList[1]

\* the boot HDD of an HDD-only bcache+LVM group was removed
C4_Witness ==
    /\ variant = "bcache_lvm" /\ call.op = "remove_disk" /\ Completed
    /\ call.pre.ssd = None /\ call.disk = call.pre.bootHdd
    /\ Len(call.pre.hddList) >= 2

\* C5 (I6): a completed add_disk or remove_disk returns TRUE exactly when
\* boot_disk after the call differs from boot_disk before it, in both
\* variants.
C5_ReturnsBootDiskChanged ==
    (Edit /\ Completed) =>
        (call.ret <=> boot_disk(call.pre) # boot_disk(cg))

\* the bcachefs driver answered its constant True for an SSD
C5_Witness ==
    /\ variant = "bcachefs" /\ Edit /\ Completed
    /\ call.disk \in Ssds /\ call.ret

\* the disks that are physically part of the cache layer / volume group
\* (bcache+LVM) or of the filesystem (bcachefs), as partitions
DataPartitions(g) == {get_hdd_data_partition(g, g.hddList[i]) : i \in DOMAIN g.hddList}
CachePartitions(g) == IF g.ssd = None THEN {} ELSE {g.ssdCacheParti}
ModelMatchesPhysical ==
    IF variant = "bcache_lvm"
    THEN /\ phys.cacheDevs = CachePartitions(cg)
         /\ phys.backingDevs = DataPartitions(cg)
         /\ phys.vgPvs = DataPartitions(cg)
    ELSE phys.fsDevs = DataPartitions(cg) \cup CachePartitions(cg)

\* C6: after every add_disk and remove_disk, completed or failed at any
\* physical step, the SSD and the HDDs the model records are exactly the
\* disks that are physically part of the cache layer, the volume group or
\* the filesystem.
C6_ModelConsistentWithPhysical ==
    (created /\ Edit) => ModelMatchesPhysical

\* an add_disk whose tool failed left the disk recorded in the model and
\* absent from the filesystem
C6_Witness ==
    /\ variant = "bcachefs" /\ call.op = "add_disk"
    /\ call.status = "CalledProcessError"
    /\ call.disk \in Members(cg) /\ call.disk \notin Members(call.pre)
    /\ get_hdd_data_partition(cg, call.disk) \notin phys.fsDevs

\* C7: remove_disk of an HDD in the bcache+LVM variant issues vgreduce only
\* after pvmove and stopBackingDevice only after vgreduce; when pvmove exits
\* with any code but the expected one the call fails with RemoveDiskError,
\* neither vgreduce nor stopBackingDevice is issued, and hddList and bootHdd
\* are those of before the call.
C7_EvacuateBeforeReduce ==
    (variant = "bcache_lvm" /\ call.op = "remove_disk"
        /\ call.disk \in Members(call.pre)) =>
        /\ \A i \in DOMAIN call.ops : call.ops[i].name = "vgreduce" =>
                \E j \in 1..(i - 1) : call.ops[j].name = "pvmove"
        /\ \A i \in DOMAIN call.ops : call.ops[i].name = "stopBackingDevice" =>
                \E j \in 1..(i - 1) : call.ops[j].name = "vgreduce"
        /\ (Issued("pvmove") /\ call.rc # PvmoveExpectedRc) =>
                /\ call.status = "RemoveDiskError_failed"
                /\ ~Issued("vgreduce")
                /\ ~Issued("stopBackingDevice")
                /\ cg.hddList = call.pre.hddList
                /\ cg.bootHdd = call.pre.bootHdd

\* pvmove was issued and exited with a code that is not the expected one
C7_Witness ==
    /\ variant = "bcache_lvm" /\ call.op = "remove_disk"
    /\ call.disk \in Members(call.pre)
    /\ Issued("pvmove") /\ call.rc # PvmoveExpectedRc
    /\ call.status = "RemoveDiskError_failed"

\* C8: add_disk of an HDD in the bcache+LVM variant, when no tool fails,
\* makes and registers the backing device on the HDD's data partition, then
\* attaches the cache (when an SSD is recorded), then adds the composed
\* device to the volume group, in this order, and completes; an add_disk
\* that stops before the volume-group addition leaves the volume group's
\* physical volumes as they were.
C8_AddHddOrder ==
    (variant = "bcache_lvm" /\ call.op = "add_disk" /\ call.disk \in Hdds) =>
        /\ call.failAt = 0 =>
            /\ Completed
            /\ \E i, k \in DOMAIN call.ops :
                /\ i < k
                /\ call.ops[i] = Op("makeAndRegisterBackingDevice",
                                    get_hdd_data_partition(cg, call.disk), <<>>)
                /\ call.ops[k].name = "addPvToVg"
                /\ call.pre.ssd # None =>
                        \E j \in (i + 1)..(k - 1) : call.ops[j].name = "attachCacheDevice"
        /\ \A k \in DOMAIN call.ops : call.ops[k].name = "addPvToVg" =>
                \E i \in 1..(k - 1) : call.ops[i].name = "makeAndRegisterBackingDevice"

\* add_disk of an HDD stopped on the attribute the class never sets, after
\* the backing device was made on the SSD's cache partition
C8_Witness ==
    /\ variant = "bcache_lvm" /\ call.op = "add_disk" /\ call.disk \in Hdds
    /\ call.failAt = 0 /\ call.status = "AttributeError"
    /\ call.ops[Len(call.ops)] =
            Op("makeAndRegisterBackingDevice", call.pre.ssdCacheParti, <<>>)
    /\ ~Issued("addPvToVg")

\* C9: remove_disk of the SSD, when the SSD has a swap partition with an
\* active swap consumer, fails with SWAP_IS_IN_USE before any physical
\* operation is issued; the model still records the SSD and bootHdd = None.
\* In both variants.
C9_SwapInUseChecked ==
    (call.op = "remove_disk" /\ call.pre.ssd # None /\ call.disk = call.pre.ssd
        /\ call.pre.ssdSwapParti # None /\ call.swapInUse) =>
        /\ call.status = "RemoveDiskError_SWAP_IS_IN_USE"
        /\ call.ops = <<>>
        /\ cg = call.pre
        /\ cg.ssd = call.disk
        /\ cg.bootHdd = None

\* the removal of an SSD whose swap partition is in use was asked for
C9_Witness ==
    /\ call.op = "remove_disk" /\ call.pre.ssd # None /\ call.disk = call.pre.ssd
    /\ call.pre.ssdSwapParti # None /\ call.swapInUse
    /\ call.status = "RemoveDiskError_SWAP_IS_IN_USE"

\* C10: create_and_mount fails with CreateError NO_DISK_WHEN_CREATE when the
\* disks it is given hold no HDD, and with CreateError MULTIPLE_SSD when they
\* hold more than one SSD; in both cases no physical operation is issued.
C10_CreateErrors ==
    (call.op = "create_and_mount"
        /\ (Len(call.ssd_list) > 1 \/ Len(call.hdd_list) = 0)) =>
        /\ call.ops = <<>>
        /\ call.status \in {"CreateError_MULTIPLE_SSD", "CreateError_NO_DISK_WHEN_CREATE"}
        /\ (Len(call.ssd_list) > 1 /\ Len(call.hdd_list) > 0) =>
                call.status = "CreateError_MULTIPLE_SSD"
        /\ (Len(call.ssd_list) <= 1 /\ Len(call.hdd_list) = 0) =>
                call.status = "CreateError_NO_DISK_WHEN_CREATE"

\* the bcachefs create_and_mount was given an empty hdd_list and stopped on
\* its assertion
C10_Witness ==
    /\ variant = "bcachefs" /\ call.op = "create_and_mount"
    /\ call.explicit /\ call.hdd_list = <<>>
    /\ call.status = "AssertionError" /\ call.ops = <<>>

\* C11: after a completed create_and_mount of the bcache+LVM variant on one
\* SSD and N >= 1 HDDs, every HDD's data partition is a registered backing
\* device, the SSD's cache device is attached to every one of them, the
\* volume group holds exactly their N composed devices, the root logical
\* volume exists and is mounted, and boot_disk is None.
C11_CreateBuildsLayout ==
    (variant = "bcache_lvm" /\ call.op = "create_and_mount" /\ Completed
        /\ Len(call.ssd_list) = 1 /\ Len(call.hdd_list) >= 1) =>
        /\ Members(cg) = SeqToSet(call.hdd_list)
        /\ phys.backingDevs = DataPartitions(cg)
        /\ phys.cacheDevs = CachePartitions(cg)
        /\ phys.attached = DataPartitions(cg)
        /\ phys.vgPvs = DataPartitions(cg)
        /\ phys.rootLv /\ phys.mounted
        /\ boot_disk(cg) = None

\* create_and_mount completed on one SSD and one HDD and left the HDD's
\* backing device without the cache
C11_Witness ==
    /\ variant = "bcache_lvm" /\ call.op = "create_and_mount" /\ Completed
    /\ Len(call.ssd_list) = 1 /\ Len(call.hdd_list) = 1
    /\ phys.backingDevs = DataPartitions(cg)
    /\ phys.vgPvs = DataPartitions(cg)
    /\ phys.attached = {}

\* C12: in both variants a create_and_mount on at most one SSD and at least
\* one HDD, with every tool succeeding, returns an instance: the root
\* filesystem is mounted and the instance holds its cache group (and its
\* mount controller), so that umount_and_dispose can unmount it.
C12_CreateReturnsMounted ==
    (call.op = "create_and_mount" /\ call.failAt = 0
        /\ Len(call.ssd_list) <= 1 /\ Len(call.hdd_list) >= 1) =>
        /\ Completed
        /\ created
        /\ phys.mounted
        /\ Members(cg) = SeqToSet(call.hdd_list)

\* the bcachefs create_and_mount stopped on the constructor call, with
\* nothing mounted and no instance
C12_Witness ==
    /\ variant = "bcachefs" /\ call.op = "create_and_mount"
    /\ Len(call.ssd_list) <= 1 /\ Len(call.hdd_list) >= 1
    /\ call.status = "TypeError" /\ ~created /\ ~phys.mounted

\* C15: after a completed umount_and_dispose the root filesystem is
\* unmounted and neither the SSD's cache device nor any HDD's backing
\* device of the group is registered with the cache layer.
C15_DisposeReleasesBacking ==
    (call.op = "umount_and_dispose" /\ Completed) =>
        /\ ~phys.mounted
        /\ phys.cacheDevs \cap CachePartitions(call.pre) = {}
        /\ phys.backingDevs \cap DataPartitions(call.pre) = {}

\* umount_and_dispose returned and the group's backing devices are still
\* registered
C15_Witness ==
    /\ variant = "bcache_lvm" /\ call.op = "umount_and_dispose" /\ Completed
    /\ ~phys.mounted /\ ~created
    /\ DataPartitions(call.pre) # {}
    /\ DataPartitions(call.pre) \subseteq phys.backingDevs

\* what a validation of detect_and_mount or parse raises
ValidationErrors ==
    {"CreateError_MULTIPLE_SSD", "CreateError_NO_DISK_WHEN_CREATE",
     "ParseError_SSD_PARTITIONS", "ParseError_NO_VG", "ParseError_extra_disk_needed",
     "ParseError_NON_BCACHE_PV", "ParseError_HDD_CHECK",
     "ParseError_ROOT_DEV_MUST_BE", "ParseError_ROOT_PARTITION_FS_SHOULD_BE",
     "ParseError_BOOT_DEV_MUST_BE", "ParseError_BOOT_DEV_IS_NOT_ESP"}
\* the disks found in the volume group
VgDisks == {devPathPartitionToDisk(pv) : pv \in phys.vgPvs}

\* C13: detect_and_mount issues scanAndRegisterAll and activateAll before
\* any validation; when the disks found in the volume group are not all in
\* the declared disk list it fails, with ParseError "extra disk needed" when
\* the declared list is admissible and the volume group was found; the
\* mount is the last step, issued only when every validation has passed; a
\* failing detect_and_mount mounts nothing and returns no instance.
C13_DetectValidatesBeforeMount ==
    call.op = "detect_and_mount" =>
        LET names == [i \in DOMAIN call.ops |-> call.ops[i].name]
            ssd == IF call.ssd_list = <<>> THEN None ELSE call.ssd_list[1]
            broughtUp == Len(names) >= 2 /\ ~(call.failAt = 2 /\ ~Completed)
        IN  /\ SubSeq(names, 1, Min(2, Len(names)))
                    = SubSeq(<<"scanAndRegisterAll", "activateAll">>, 1, Min(2, Len(names)))
            /\ call.status \in ValidationErrors =>
                    names = <<"scanAndRegisterAll", "activateAll">>
            /\ ~(VgDisks \subseteq SeqToSet(call.hdd_list)) =>
                    /\ ~Completed
                    /\ ~Issued("mount")
                    /\ (/\ broughtUp
                        /\ cgGetSsdAndHddList(call.ssd_list, call.hdd_list) = "ok"
                        /\ cgGetSsdPartitions(phys, ssd) # <<>>)
                        => call.status = "ParseError_extra_disk_needed"
            /\ Issued("mount") =>
                    /\ names = <<"scanAndRegisterAll", "activateAll", "mount">>
                    /\ VgDisks # {}
                    /\ VgDisks \subseteq SeqToSet(call.hdd_list)
            /\ ~Completed => ~created /\ ~phys.mounted /\ cg = EfiCacheGroup
            /\ Completed => created /\ phys.mounted /\ Members(cg) = VgDisks

\* the volume group held a disk that was not declared
C13_Witness ==
    /\ call.op = "detect_and_mount"
    /\ call.hdd_list # <<>>
    /\ ~(VgDisks \subseteq SeqToSet(call.hdd_list))
    /\ call.status = "ParseError_extra_disk_needed"
    /\ ~created /\ ~phys.mounted

\* C14: parse issues no physical operation and leaves the device graph, the
\* mount included, as it is, whether it fails or returns; in the bcache+LVM
\* variant it fails with a ParseError when root_dev is not the root LV's
\* path or the root LV's filesystem is not ext4, and the failure leaves the
\* instance held as it was; a returned model has bootHdd = None when an SSD
\* was recognized and the disk of boot_dev otherwise.
C14_ParseProbesOnly ==
    [][call'.op = "parse" =>
        /\ phys' = phys
        /\ call'.ops = <<>>
        /\ (variant = "bcache_lvm"
                /\ (call'.root_dev # rootLvDevPath \/ call'.fsType # fsTypeExt4)) =>
                /\ call'.status \in ValidationErrors
                /\ cg' = cg /\ created' = created
        /\ call'.status = "ok" =>
                /\ created'
                /\ cg'.bootHdd = IF cg'.ssd # None THEN None
                                 ELSE devPathPartitionToDisk(call'.boot_dev)
                /\ cg'.ssd = None => cg'.bootHdd \in SeqToSet(cg'.hddList)
    ]_vars

\* parse returned the model of an HDD-only group booted from its second HDD
C14_Witness ==
    /\ variant = "bcache_lvm" /\ call.op = "parse" /\ Completed /\ created
    /\ cg.ssd = None /\ Len(cg.hddList) = 2
    /\ cg.bootHdd = devPathPartitionToDisk(call.boot_dev)
    /\ cg.bootHdd = cg.hddList[2]
    /\ phys.mounted

\* ============================================ util.py: bcache superblock
\* A byte string is a function from 0..(n - 1) to 0..255.  The content of a
\* device is followed from sector 8 on for the length of the record; what
\* precedes and follows it is "kept" or "zeroed".

\* struct: the native size of a format character
SizeOf(c) == CASE c = "Q" -> 8 [] c = "I" -> 4 [] c = "H" -> 2 [] c = "B" -> 1 [] c = "s" -> 1

\* struct.calcsize of a format written as a sequence of <<count, character>>:
\* native alignment starts every item at a multiple of its size
RECURSIVE calcsizeFrom(_, _, _)
calcsizeFrom(fmt, i, off) ==
    IF i > Len(fmt) THEN off
    ELSE LET sz == SizeOf(fmt[i][2])
             start == ((off + sz - 1) \div sz) * sz
         IN  calcsizeFrom(fmt, i + 1, start + fmt[i][1] * sz)

calcsize(fmt) == calcsizeFrom(fmt, 1, 0)

\* "QQQ16B16B16B32BQQ8QQHHHHIHH", without cache_sb.d
bcacheSbFmt ==
    << <<1, "Q">>, <<1, "Q">>, <<1, "Q">>, <<16, "B">>, <<16, "B">>, <<16, "B">>,
       <<32, "B">>, <<1, "Q">>, <<1, "Q">>, <<8, "Q">>, <<1, "Q">>,
       <<1, "H">>, <<1, "H">>, <<1, "H">>, <<1, "H">>, <<1, "I">>,
       <<1, "H">>, <<1, "H">> >>

ListBytes(l) == [i \in 0..(Len(l) - 1) |-> l[i + 1]]

\* c6 85 73 f6 4e 1a 45 ca 82 65 f5 7f 48 ba 6d 81
bcacheSbMagic ==
    ListBytes(<<198, 133, 115, 246, 78, 26, 69, 202,
                130, 101, 245, 127, 72, 186, 109, 129>>)

RECURSIVE Shr8(_, _)
Shr8(v, i) == IF i = 0 THEN v ELSE Shr8(v \div 256, i - 1)

\* struct.pack of an unsigned integer: its n bytes in the machine's byte order
IntBytes(v, n, order) ==
    [i \in 0..(n - 1) |->
        IF order = "little" THEN Shr8(v, i) % 256 ELSE Shr8(v, n - 1 - i) % 256]

\* the largest value format character c holds (struct.error above it);
\* the values packed with "Q" here stay far below 2^64
FitsIn(v, c) == c = "Q" \/ v < (IF c = "H" THEN 65536 ELSE 256)

\* struct.pack_into(fmt, buf, p, ...): the bytes replace buf[p .. p + n - 1]
pack_into(buf, p, bytes) ==
    LET n == Cardinality(DOMAIN bytes)
    IN  [i \in DOMAIN buf |-> IF i >= p /\ i < p + n THEN bytes[i - p] ELSE buf[i]]

\* f.seek(p); f.read(n)
ReadAt(buf, p, n) == [i \in 0..(n - 1) |-> buf[p + i]]

SB_SECTOR == 8
BCACHE_SB_VERSION_CDEV == 0
BCACHE_SB_VERSION_BDEV == 1
BCACHE_SB_VERSION_CDEV_WITH_UUID == 3
BCACHE_SB_VERSION_BDEV_WITH_OFFSET == 4
CACHE_MODE_WRITEBACK == 1
BucketSizeDefault == 1024
MinBuckets == 128               \* 0x80
JournalStart == 23              \* first_bucket = (23 // bucketSize) + 1

MakeFailed(dev, status) == [status |-> status, ret |-> None, dev |-> dev, fields |-> <<>>]

\* the bucket-count test of a cache device
NotEnoughBuckets(nbuckets) == nbuckets < MinBuckets

\* the bucket-size test
BucketTooSmall_never(bucketSize, blockSize) == FALSE

BucketTooSmall(bucketSize, blockSize) == bucketSize < blockSize

\* util.bcacheMakeDevice(devPath, backingDeviceOrCacheDevice, blockSize,
\* bucketSize, dataOffset); devUuid and setUuid are the two uuid.uuid4()
\* draws.  The record is built in memory, field after field at the running
\* offset p, and written last.  "fields" lists what was packed, and where.
bcacheMakeDevice(dev, backingDeviceOrCacheDevice, blockSizeArg, bucketSizeArg, dataOffset, devUuid, setUuid) ==
    LET blockSize == IF blockSizeArg = None THEN dev.ss \div 512 ELSE blockSizeArg
        bucketSize == IF bucketSizeArg = None THEN BucketSizeDefault ELSE bucketSizeArg
        o == dev.order
        sb0 == [i \in 0..(calcsize(bcacheSbFmt) - 1) |-> 0]
        \* cache_sb.csum
        offset_content == calcsize(<< <<1, "Q">> >>)
        \* cache_sb.offset
        pOffset == offset_content
        sb1 == pack_into(sb0, pOffset, IntBytes(SB_SECTOR, 8, o))
        \* cache_sb.version
        offset_version == pOffset + calcsize(<< <<1, "Q">> >>)
        version0 == IF backingDeviceOrCacheDevice THEN BCACHE_SB_VERSION_BDEV
                    ELSE BCACHE_SB_VERSION_CDEV
        sb2 == pack_into(sb1, offset_version, IntBytes(version0, 8, o))
        \* cache_sb.magic
        pMagic == offset_version + calcsize(<< <<1, "Q">> >>)
        sb3 == pack_into(sb2, pMagic, bcacheSbMagic)
        \* cache_sb.uuid
        pUuid == pMagic + calcsize(<< <<16, "B">> >>)
        sb4 == pack_into(sb3, pUuid, devUuid)
        \* cache_sb.set_uuid
        pSetUuid == pUuid + calcsize(<< <<16, "B">> >>)
        sb5 == pack_into(sb4, pSetUuid, setUuid)
        \* cache_sb.label
        pLabel == pSetUuid + calcsize(<< <<16, "B">> >>)
        \* cache_sb.flags
        pFlags == pLabel + calcsize(<< <<32, "B">> >>)
        flags == IF backingDeviceOrCacheDevice THEN CACHE_MODE_WRITEBACK ELSE 0
        sb6 == pack_into(sb5, pFlags, IntBytes(flags, 8, o))
        \* cache_sb.seq, cache_sb.pad
        pSeq == pFlags + calcsize(<< <<1, "Q">> >>)
        pPad == pSeq + calcsize(<< <<1, "Q">> >>)
        \* cache_sb.data_offset / cache_sb.nbuckets
        pUnion == pPad + calcsize(<< <<8, "Q">> >>)
        nbuckets == ((dev.sectors * 512) \div 512) \div bucketSize
        sb7 == IF backingDeviceOrCacheDevice
               THEN IF dataOffset # None
                    THEN pack_into(
                            pack_into(sb6, offset_version,
                                      IntBytes(BCACHE_SB_VERSION_BDEV_WITH_OFFSET, 8, o)),
                            pUnion, IntBytes(dataOffset, 8, o))
                    ELSE sb6
               ELSE pack_into(sb6, pUnion, IntBytes(nbuckets, 8, o))
        \* cache_sb.block_size
        pBlockSize == pUnion + calcsize(<< <<1, "Q">> >>)
        sb8 == pack_into(sb7, pBlockSize, IntBytes(blockSize, 2, o))
        \* cache_sb.bucket_size
        pBucketSize == pBlockSize + calcsize(<< <<1, "H">> >>)
        sb9 == pack_into(sb8, pBucketSize, IntBytes(bucketSize, 2, o))
        \* cache_sb.nr_in_set: packed, and p advanced, for a cache device only
        pNrInSet == pBucketSize + calcsize(<< <<1, "H">> >>)
        sb10 == IF backingDeviceOrCacheDevice THEN sb9
                ELSE pack_into(sb9, pNrInSet, IntBytes(1, 2, o))
        \* cache_sb.nr_this_dev
        pNrThisDev == IF backingDeviceOrCacheDevice THEN pNrInSet
                      ELSE pNrInSet + calcsize(<< <<1, "H">> >>)
        \* cache_sb.last_mount
        pLastMount == pNrThisDev + calcsize(<< <<1, "H">> >>)
        \* cache_sb.first_bucket
        pFirstBucket == pLastMount + calcsize(<< <<1, "I">> >>)
        sb11 == pack_into(sb10, pFirstBucket,
                          IntBytes((JournalStart \div bucketSize) + 1, 2, o))
        fields ==
            << <<"offset", pOffset, 8>>, <<"version", offset_version, 8>>,
               <<"magic", pMagic, 16>>, <<"uuid", pUuid, 16>>,
               <<"set_uuid", pSetUuid, 16>>, <<"flags", pFlags, 8>> >>
            \o (IF backingDeviceOrCacheDevice
                THEN IF dataOffset # None THEN << <<"data_offset", pUnion, 8>> >> ELSE <<>>
                ELSE << <<"nbuckets", pUnion, 8>> >>)
            \o << <<"block_size", pBlockSize, 2>>, <<"bucket_size", pBucketSize, 2>> >>
            \o (IF backingDeviceOrCacheDevice THEN <<>>
                ELSE << <<"nr_in_set", pNrInSet, 2>> >>)
            \o << <<"first_bucket", pFirstBucket, 2>>, <<"csum", 0, 8>> >>
    IN  IF BucketTooSmall(bucketSize, blockSize)
        THEN MakeFailed(dev, "Exception_BUCKET_SIZE_SMALLER_THAN_BLOCK_SIZE")
        ELSE IF ~backingDeviceOrCacheDevice /\ NotEnoughBuckets(nbuckets)
        THEN MakeFailed(dev, "Exception_NOT_ENOUGH_BUCKETS")
        ELSE IF ~FitsIn(blockSize, "H") \/ ~FitsIn(bucketSize, "H")
        THEN MakeFailed(dev, "struct.error")
        ELSE [status |-> "ok",
              ret |-> <<devUuid, setUuid>>,
              \* the checksum field holds the CRC-64/WE of sb[offset_content:]
              dev |-> [dev EXCEPT !.head = "zeroed", !.sb = sb11, !.d = "zeroed",
                                  !.csum = <<offset_content, calcsize(bcacheSbFmt)>>],
              fields |-> fields]

\* the test of the magic field
MagicMatches(buf) == buf = bcacheSbMagic

\* "value in versionValueList", the 8 bytes read as an unsigned integer
VersionIn_low_byte(buf, versionValueList, order) ==
    \E v \in versionValueList : buf[IF order = "little" THEN 0 ELSE 7] = v

VersionIn(buf, versionValueList, order) ==
    \E v \in versionValueList : buf = IntBytes(v, 8, order)

\* util._bcacheIsBackingDeviceOrCachDevice
bcacheIsBackingDeviceOrCachDevice(dev, backingDeviceOrCacheDevice) ==
    LET versionValueList ==
            IF backingDeviceOrCacheDevice
            THEN {BCACHE_SB_VERSION_BDEV, BCACHE_SB_VERSION_BDEV_WITH_OFFSET}
            ELSE {BCACHE_SB_VERSION_CDEV, BCACHE_SB_VERSION_CDEV_WITH_UUID}
        magic == ReadAt(dev.sb, calcsize(<< <<1, "Q">>, <<1, "Q">>, <<1, "Q">> >>),
                        calcsize(<< <<16, "B">> >>))
        version == ReadAt(dev.sb, calcsize(<< <<1, "Q">>, <<1, "Q">> >>),
                          calcsize(<< <<1, "Q">> >>))
    IN  IF ~MagicMatches(magic) THEN FALSE
        ELSE IF ~VersionIn(version, versionValueList, dev.order) THEN FALSE
        ELSE TRUE

bcacheIsBackingDevice(dev) == bcacheIsBackingDeviceOrCachDevice(dev, TRUE)
bcacheIsCacheDevice(dev) == bcacheIsBackingDeviceOrCachDevice(dev, FALSE)

\* which 16 bytes bcacheGetSetUuid reads
SetUuidOffset_uuid == calcsize(<< <<1, "Q">>, <<1, "Q">>, <<1, "Q">>, <<16, "B">> >>)

SetUuidOffset ==
    calcsize(<< <<1, "Q">>, <<1, "Q">>, <<1, "Q">>, <<16, "B">>, <<16, "B">> >>)

\* util.bcacheGetSetUuid: asserts a cache device, then reads the 16 bytes
bcacheGetSetUuid(dev) ==
    IF ~bcacheIsCacheDevice(dev)
    THEN [status |-> "AssertionError", ret |-> None]
    ELSE [status |-> "ok",
          ret |-> ReadAt(dev.sb, SetUuidOffset, calcsize(<< <<16, "B">> >>))]

\* ------------------------------------------ the superblock functions at work
MaxUuid == 2        \* distinct values uuid.uuid4() can draw
MaxVersion == 5     \* the largest version number a found superblock carries

Uuid(k) == [i \in 0..15 |-> (k * 16 + i) % 256]
Uuids == {Uuid(k) : k \in 1..MaxUuid}

ByteOrders == {"little", "big"}
SectorSizes == {512, 4096}                      \* blockdev --getss
DeviceSectors == {127 * 1024, 128 * 1024}       \* blockdev --getsz

BlankSb == [i \in 0..(calcsize(bcacheSbFmt) - 1) |-> 0]
FlipAt(b, i) == [b EXCEPT ![i] = (b[i] + 1) % 256]

\* what a device can carry in the magic and the version fields before it is
\* probed: the constant with any version number, small or with a low byte
\* that alone looks like one, in either byte order; or zeros, or the
\* constant with its first or last byte changed, with a version number
\* that would do
MagicFields ==
    {bcacheSbMagic, [i \in 0..15 |-> 0]} \cup {FlipAt(bcacheSbMagic, i) : i \in {0, 15}}
VersionFields ==
    {IntBytes(v, 8, "little") : v \in (0..MaxVersion) \cup {257}}
        \cup {IntBytes(BCACHE_SB_VERSION_BDEV, 8, "big")}
FoundFields ==
    {<<bcacheSbMagic, v>> : v \in VersionFields}
        \cup {<<m, IntBytes(v, 8, "little")>> :
                m \in MagicFields,
                v \in {BCACHE_SB_VERSION_CDEV, BCACHE_SB_VERSION_BDEV}}

FoundDevices ==
    {[order |-> o, ss |-> ss, sectors |-> n, head |-> "kept", d |-> "kept",
      csum |-> "kept",
      sb |-> pack_into(pack_into(BlankSb, 24, f[1]), 16, f[2])] :
        o \in ByteOrders, ss \in SectorSizes, n \in DeviceSectors, f \in FoundFields}

NoMake ==
    [op |-> "none", role |-> FALSE, blockSize |-> None, bucketSize |-> None,
     dataOffset |-> None, status |-> "none", ret |-> None, fields |-> <<>>]

UtilCall(op, role, status, ret, made) ==
    [op |-> op, role |-> role, status |-> status, ret |-> ret, made |-> made]

LayoutIdle ==
    /\ variant = "bcache_lvm"
    /\ created = FALSE
    /\ cg = EfiCacheGroup
    /\ phys = PhysInit
    /\ call = NoCall
    /\ ncalls = 0

InitBcache ==
    /\ LayoutIdle
    /\ blkdev \in FoundDevices
    /\ ucall = UtilCall("none", FALSE, "none", None, NoMake)

\* bcacheMakeDevice on a device as found
BcacheMakeDevice ==
    /\ ucall.op = "none"
    /\ \E role \in BOOLEAN, blockSize \in {None, 16}, bucketSize \in {None, 4, 65536},
          dataOffset \in {None, 16}, devUuid \in Uuids, setUuid \in Uuids :
        /\ ~role => dataOffset = None          \* a cache device has no use for it
        /\ bucketSize = 65536 => blockSize = None
        /\ LET r == bcacheMakeDevice(blkdev, role, blockSize, bucketSize, dataOffset,
                                  devUuid, setUuid)
           IN  /\ blkdev' = r.dev
               /\ ucall' = UtilCall("bcacheMakeDevice", role, r.status, r.ret,
                                    [op |-> "bcacheMakeDevice", role |-> role,
                                     blockSize |-> blockSize, bucketSize |-> bucketSize,
                                     dataOffset |-> dataOffset, status |-> r.status,
                                     ret |-> r.ret, fields |-> r.fields])
    /\ UNCHANGED layoutVars

\* bcacheIsBackingDevice / bcacheIsCacheDevice
BcacheIsDevice ==
    /\ \E role \in BOOLEAN :
        ucall' = UtilCall("bcacheIsDevice", role, "ok",
                          bcacheIsBackingDeviceOrCachDevice(blkdev, role), ucall.made)
    /\ UNCHANGED <<layoutVars, blkdev>>

BcacheGetSetUuid ==
    /\ LET r == bcacheGetSetUuid(blkdev)
       IN  ucall' = UtilCall("bcacheGetSetUuid", FALSE, r.status, r.ret, ucall.made)
    /\ UNCHANGED <<layoutVars, blkdev>>

NextBcache ==
    \/ BcacheMakeDevice
    \/ BcacheIsDevice
    \/ BcacheGetSetUuid

SpecBcache == InitBcache /\ [][NextBcache]_vars

\* -------------------------------------------------- claims C16 .. C18
MadeOk == ucall.made.status = "ok"

\* C16: after bcacheMakeDevice succeeded, for either role and every choice
\* of blockSize, bucketSize and dataOffset, the probe for the role the
\* device was made for answers true and the probe for the other role
\* answers false; bcacheGetSetUuid on a device made as a cache device
\* returns the set UUID that bcacheMakeDevice returned, and on a device made
\* as a backing device it fails (the assertion of line 358).
C16_SuperblockRoundTrip ==
    MadeOk =>
        /\ ucall.op = "bcacheIsDevice" => ucall.ret = (ucall.role = ucall.made.role)
        /\ ucall.op = "bcacheGetSetUuid" =>
            IF ucall.made.role
            THEN ucall.status = "AssertionError"
            ELSE ucall.status = "ok" /\ ucall.ret = ucall.made.ret[2]

\* a cache device made with an explicit bucket size, whose set UUID, other
\* than its device UUID, was read back
C16_Witness ==
    /\ MadeOk
    /\ ~ucall.made.role
    /\ ucall.made.bucketSize # None
    /\ ucall.op = "bcacheGetSetUuid"
    /\ ucall.ret = ucall.made.ret[2]
    /\ ucall.ret # ucall.made.ret[1]

\* the cache_sb record of bcache-tools: csum, offset and version are three
\* 64-bit words, the magic follows them
MagicField == [i \in 0..15 |-> blkdev.sb[24 + i]]
VersionField == [i \in 0..7 |-> blkdev.sb[16 + i]]

\* the version field, read in the machine's byte order, is a number of S
\* (every number of S is below 256)
VersionFieldIn(S) ==
    LET low == IF blkdev.order = "little" THEN 0 ELSE 7
    IN  /\ VersionField[low] \in S
        /\ \A i \in (0..7) \ {low} : VersionField[i] = 0

MadeBlockSize ==
    IF ucall.made.blockSize = None THEN blkdev.ss \div 512 ELSE ucall.made.blockSize
MadeBucketSize ==
    IF ucall.made.bucketSize = None THEN 1024 ELSE ucall.made.bucketSize

\* C18: bcacheMakeDevice fails (the Exception of line 196 or of line 268)
\* when bucketSize < blockSize, for either role, and when a cache device
\* would have fewer than 0x80 buckets; in every failing case the device is
\* as it was before the call.
C18_MakeFailsBeforeWriting ==
    [][ucall'.op = "bcacheMakeDevice" =>
        /\ (\/ MadeBucketSize' < MadeBlockSize'
            \/ ~ucall'.role /\ blkdev.sectors \div MadeBucketSize' < 128)
           => ucall'.status \in {"Exception_BUCKET_SIZE_SMALLER_THAN_BLOCK_SIZE",
                                 "Exception_NOT_ENOUGH_BUCKETS"}
        /\ ucall'.status # "ok" => blkdev' = blkdev]_vars

\* a cache device one bucket short of 0x80, with the default bucket size
C18_Witness ==
    /\ ucall.op = "bcacheMakeDevice"
    /\ ~ucall.role
    /\ ucall.made.bucketSize = None
    /\ blkdev.sectors \div 1024 = 127
    /\ ucall.status = "Exception_NOT_ENOUGH_BUCKETS"
    /\ blkdev.head = "kept"

\* ======================================== util.py: gptIsEspPartition
\* The content of a disk is a function from the byte positions that were
\* written to bytes; every other byte of the disk reads 0.
ByteAt(bytes, pos) == IF pos \in DOMAIN bytes THEN bytes[pos] ELSE 0
ReadDisk(bytes, pos, n) == [i \in 0..(n - 1) |-> ByteAt(bytes, pos + i)]

\* where item i (from 1) of a struct format starts
FieldOffset(fmt, i) ==
    LET sz == SizeOf(fmt[i][2])
        before == calcsize(SubSeq(fmt, 1, i - 1))
    IN  ((before + sz - 1) \div sz) * sz

mbrPartitionRecordFmt == << <<8, "B">>, <<1, "I">>, <<1, "I">> >>             \* "8BII"
mbrHeaderFmt ==                                                     \* "440sIH%dsH"
    << <<440, "s">>, <<1, "I">>, <<1, "H">>,
       <<calcsize(mbrPartitionRecordFmt) * 4, "s">>, <<1, "H">> >>
gptEntryFmt ==                                                    \* "16s16sQQQ36H"
    << <<16, "s">>, <<16, "s">>, <<1, "Q">>, <<1, "Q">>, <<1, "Q">>, <<36, "H">> >>
gptHeaderFmt ==                                           \* "QIIIIQQQQ16sQIII420s"
    << <<1, "Q">>, <<1, "I">>, <<1, "I">>, <<1, "I">>, <<1, "I">>, <<1, "Q">>,
       <<1, "Q">>, <<1, "Q">>, <<1, "Q">>, <<16, "s">>, <<1, "Q">>, <<1, "I">>,
       <<1, "I">>, <<1, "I">>, <<420, "s">> >>

\* struct.unpack of an unsigned integer of at most three significant bytes;
\* BeyondDisk stands for every larger value, a position no disk has
BeyondDisk == -1
UnpackInt(bytes, order) ==
    LET n == Cardinality(DOMAIN bytes)
        b(i) == IF order = "little" THEN bytes[i] ELSE bytes[n - 1 - i]
    IN  IF \E i \in 3..(n - 1) : b(i) # 0 THEN BeyondDisk
        ELSE b(0) + (IF n > 1 THEN 256 * b(1) ELSE 0) + (IF n > 2 THEN 65536 * b(2) ELSE 0)

HexDigits == <<"0", "1", "2", "3", "4", "5", "6", "7", "8", "9",
               "A", "B", "C", "D", "E", "F">>
HexVal(c) == (CHOOSE k \in 1..16 : HexDigits[k] = c) - 1

\* exec("n = 0x" + digits); struct.pack of n in a field of Len(digits) / 2
\* bytes: the digit pairs, most significant first, laid out in the
\* machine's byte order
PackHex(digits, order) ==
    LET n == Len(digits) \div 2
        msb(i) == 16 * HexVal(digits[2 * i + 1]) + HexVal(digits[2 * i + 2])
    IN  [i \in 0..(n - 1) |-> IF order = "little" THEN msb(n - 1 - i) ELSE msb(i)]

Concat(a, b) ==
    LET n == Cardinality(DOMAIN a)
    IN  [i \in 0..(n + Cardinality(DOMAIN b) - 1) |-> IF i < n THEN a[i] ELSE b[i - n]]

\* util.gptNewGuid(guidStr): "IHHBB6s" packed from the hexadecimal groups;
\* the node bytes are appended one by one, in the order of the string
gptNewGuid(guidStr, order) ==
    LET s == SelectSeq(guidStr, LAMBDA c : c # "-")
        n1 == PackHex(SubSeq(s, 1, 8), order)
        n2 == PackHex(SubSeq(s, 9, 12), order)
        n3 == PackHex(SubSeq(s, 13, 16), order)
        n4 == PackHex(SubSeq(s, 17, 18), order)
        n5 == PackHex(SubSeq(s, 19, 20), order)
        n6 == [i \in 0..5 |-> PackHex(SubSeq(s, 21 + i * 2, 20 + (i + 1) * 2), order)[0]]
    IN  Concat(Concat(Concat(Concat(Concat(n1, n2), n3), n4), n5), n6)

\* "C12A7328-F81F-11D2-BA4B-00A0C93EC93B"
EspGuidStr ==
    <<"C", "1", "2", "A", "7", "3", "2", "8", "-", "F", "8", "1", "F", "-",
      "1", "1", "D", "2", "-", "B", "A", "4", "B", "-",
      "0", "0", "A", "0", "C", "9", "3", "E", "C", "9", "3", "B">>

MbrSignature == 43605           \* 0xAA55
OsTypeGptProtective == 238      \* 0xEE
SectorAssumed == 512            \* f.read(512) twice, gptHeader[10] * 512

\* which records count as carrying the protective marker
ProtectiveFound(records) ==
    \E i \in 0..3 :
        LET pRec == ReadAt(records, calcsize(mbrPartitionRecordFmt) * i,
                           calcsize(mbrPartitionRecordFmt))
        IN  pRec[4] = OsTypeGptProtective

\* util.gptIsEspPartition(devPath), devPath being partition partId of the
\* disk whose bytes are given
gptIsEspPartition(bytes, order, partId) ==
    LET mbr == ReadDisk(bytes, 0, calcsize(mbrHeaderFmt))
        signature == UnpackInt(ReadAt(mbr, FieldOffset(mbrHeaderFmt, 5), 2), order)
        records == ReadAt(mbr, FieldOffset(mbrHeaderFmt, 4),
                          calcsize(mbrPartitionRecordFmt) * 4)
        gptHeader == ReadDisk(bytes, calcsize(mbrHeaderFmt), calcsize(gptHeaderFmt))
        partition_entry_lba ==
            UnpackInt(ReadAt(gptHeader, FieldOffset(gptHeaderFmt, 11), 8), order)
        pos == partition_entry_lba * SectorAssumed + calcsize(gptEntryFmt) * (partId - 1)
        partEntry == ReadDisk(bytes, pos, calcsize(gptEntryFmt))
    IN  IF signature # MbrSignature THEN [status |-> "ok", ret |-> FALSE]
        ELSE IF ~ProtectiveFound(records) THEN [status |-> "ok", ret |-> FALSE]
        ELSE IF partition_entry_lba = BeyondDisk
        THEN [status |-> "struct.error", ret |-> FALSE]     \* nothing to read there
        ELSE IF ReadAt(partEntry, 0, 16) # gptNewGuid(EspGuidStr, order)
        THEN [status |-> "ok", ret |-> FALSE]
        ELSE [status |-> "ok", ret |-> TRUE]

\* ------------------------------------------------ GPT disks, as formatted
MaxParts == 2       \* partitions of a disk

\* the bytes a partitioning tool writes (every multi-byte field is
\* little-endian on the disk): the protective MBR in sector 0, the GPT
\* header in logical block 1, the entry array from logical block entryLba
\* on, 128 bytes an entry
EspTypeOnDisk ==            \* 28 73 2a c1 1f f8 d2 11 ba 4b 00 a0 c9 3e c9 3b
    ListBytes(<<40, 115, 42, 193, 31, 248, 210, 17, 186, 75, 0, 160, 201, 62, 201, 59>>)
LinuxTypeOnDisk ==          \* af 3d c6 0f 83 84 72 47 8e 79 3d 69 d8 47 7d e4
    ListBytes(<<175, 61, 198, 15, 131, 132, 114, 71, 142, 121, 61, 105, 216, 71, 125, 228>>)
TypeOnDisk(t) ==
    CASE t = "esp" -> EspTypeOnDisk
      [] t = "linux" -> LinuxTypeOnDisk
      [] t = "esp_first_changed" -> FlipAt(EspTypeOnDisk, 0)
      [] t = "esp_last_changed" -> FlipAt(EspTypeOnDisk, 15)
PartitionTypes == {"esp", "linux", "esp_first_changed", "esp_last_changed"}

Place(pos, b) == {<<pos + i, b[i]>> : i \in DOMAIN b}

GptDiskBytes(lss, sigOk, ee, entryLba, types) ==
    LET cells ==
            Place(510, ListBytes(IF sigOk THEN <<85, 170>> ELSE <<85, 171>>))
            \cup UNION {Place(446 + 16 * r + 4, ListBytes(<<238>>)) : r \in ee}
            \cup Place(lss, ListBytes(<<69, 70, 73, 32, 80, 65, 82, 84>>))  \* "EFI PART"
            \cup Place(lss + 72, IntBytes(entryLba, 8, "little"))
            \cup UNION {Place(entryLba * lss + 128 * (k - 1), TypeOnDisk(types[k])) :
                            k \in DOMAIN types}
    IN  [pos \in {c[1] : c \in cells} |-> (CHOOSE c \in cells : c[1] = pos)[2]]

LogicalSectorSizes == {512, 4096}
ProtectiveRecords == {{}, {0}, {3}, {1, 2}}

GptDisks ==
    {[order |-> o, lss |-> lss, sigOk |-> sigOk, ee |-> ee, types |-> types,
      bytes |-> GptDiskBytes(lss, sigOk, ee, 2, types)] :
        o \in ByteOrders, lss \in LogicalSectorSizes, sigOk \in BOOLEAN,
        ee \in ProtectiveRecords, types \in [1..MaxParts -> PartitionTypes]}

InitGpt ==
    /\ LayoutIdle
    /\ blkdev \in GptDisks
    /\ ucall = [op |-> "none", partId |-> None, status |-> "none", ret |-> FALSE]

GptIsEspPartition ==
    /\ \E partId \in 1..MaxParts :
        LET r == gptIsEspPartition(blkdev.bytes, blkdev.order, partId)
        IN  ucall' = [op |-> "gptIsEspPartition", partId |-> partId,
                      status |-> r.status, ret |-> r.ret]
    /\ UNCHANGED <<layoutVars, blkdev>>

NextGpt == GptIsEspPartition

SpecGpt == InitGpt /\ [][NextGpt]_vars

\* ------------------------------------------------------------ claim C19
\* the disk of the probed partition is as the claim has it
EspAsFormatted ==
    /\ blkdev.sigOk
    /\ blkdev.ee # {}
    /\ blkdev.types[ucall.partId] = "esp"

\* C19: gptIsEspPartition returns true for a partition whose disk carries a
\* protective MBR with signature 0xAA55 and an OS-type 0xEE in at least one
\* of its four records and whose GPT entry has the ESP type GUID; with
\* another signature, with no 0xEE record or with another type GUID it
\* returns false.
C19_EspDetected ==
    ucall.op = "gptIsEspPartition" =>
        /\ ucall.status = "ok"
        /\ ucall.ret = EspAsFormatted

\* on a disk of 512-byte logical blocks, read on a little-endian machine,
\* the second partition is found to be the ESP through the marker of the
\* last MBR record
C19_Witness ==
    /\ ucall.op = "gptIsEspPartition"
    /\ ucall.partId = 2
    /\ blkdev.lss = 512 /\ blkdev.order = "little"
    /\ blkdev.ee = {3}
    /\ EspAsFormatted
    /\ ucall.ret

\* what holds of the code: the claim, for disks of 512-byte logical blocks
\* read on a little-endian machine; everywhere else the answer is false
C19_EspDetectedOn512 ==
    ucall.op = "gptIsEspPartition" =>
        /\ ucall.status = "ok"
        /\ ucall.ret = (EspAsFormatted /\ blkdev.lss = 512 /\ blkdev.order = "little")

\* ============================================ util.py: initializeDisk
\* A disk is [sectorSize, length (sectors), label, table]; a partition is
\* [start, end, pType], in sectors.  A size is <<n, unit>>, the "*" of the
\* partition list is Star.
Star == <<0, "*">>

DefaultAlignment == 1048576     \* parted's optimum alignment, 1 MiB, in bytes
FirstStart == 2048              \* if region.start < 2048: region.start = 2048
EraseSectors == 32
EraseSectorBytes == 512         \* f.seek(pStart * 512)

\* disk.device.optimumAlignment.grainSize, in sectors
grainSize(dev) == DefaultAlignment \div dev.sectorSize

\* the sectors a partition table of the label leaves to partitions: the
\* GPT keeps its header and 16 KiB of entries at both ends, the msdos
\* label its first track
FirstUsable(dev, label) ==
    IF label = "gpt" THEN 2 + (16384 \div dev.sectorSize) ELSE 63
LastUsable(dev, label) ==
    IF label = "gpt" THEN dev.length - 2 - (16384 \div dev.sectorSize) ELSE dev.length - 1

\* disk.getFreeSpaceRegions(): the gaps the partitions leave, in disk order
getFreeSpaceRegions(dev, label, parts) ==
    LET n == Len(parts)
        gap(i) == [start |-> IF i = 0 THEN FirstUsable(dev, label) ELSE parts[i].end + 1,
                   end |-> IF i = n THEN LastUsable(dev, label) ELSE parts[i + 1].start - 1]
        all == [i \in 1..(n + 1) |-> gap(i - 1)]
    IN  SelectSeq(all, LAMBDA r : r.end >= r.start)

\* which free regions _getFreeRegion passes over as alignment gaps
IsAlignmentGap(dev, r) == r.end - r.start + 1 <= grainSize(dev)

\* _getFreeRegion(disk): [status, region]
getFreeRegion(dev, label, parts) ==
    LET regions == SelectSeq(getFreeSpaceRegions(dev, label, parts),
                             LAMBDA r : ~IsAlignmentGap(dev, r))
    IN  IF Len(regions) >= 2
        THEN [status |-> "AssertionError_ONLY_ONE_FREE_REGION", region |-> None]
        ELSE IF Len(regions) = 0
        THEN [status |-> "AttributeError", region |-> None]     \* region is None
        ELSE IF regions[1].end < FirstStart
        THEN [status |-> "PartedException", region |-> None]    \* start set past the end
        ELSE [status |-> "ok",
              region |-> [regions[1] EXCEPT
                            !.start = IF @ < FirstStart THEN FirstStart ELSE @]]

\* Alignment.alignUp / alignDown within a region, for the offset and the
\* grain of the alignment
alignUp(x, offset, grain) == x + ((offset - x) % grain)
alignDown(x, offset, grain) == x - ((x - offset) % grain)

\* parted.sizeToSectors(n, unit, sectorSize)
sizeToSectors(n, unit, sectorSize) ==
    CASE unit = "MiB" -> n * (1048576 \div sectorSize)
      [] unit = "GiB" -> n * 1024 * (1048576 \div sectorSize)
      [] unit = "TiB" -> n * 1024 * 1024 * (1048576 \div sectorSize)

\* _addPartition: the status its assertions leave.  partitionTableType is
\* the name after line 567 turned "mbr" into "msdos".
addPartitionStatus(partitionTableType, pType) ==
    CASE pType = "" -> "ok"
      [] pType \in {"esp", "bcache"} ->
            IF partitionTableType = "gpt" THEN "ok" ELSE "AssertionError_GPT_ONLY"
      [] pType = "swap" ->
            IF partitionTableType \in {"mbr", "gpt"} THEN "ok"
            ELSE "AssertionError_SWAP_TABLE_TYPE"
      [] pType \in {"lvm", "vfat", "ext2", "ext4", "xfs"} -> "ok"
      [] OTHER -> "AssertionError_TYPE"

\* _erasePartitionSignature(devPath, pStart, pEnd): <<byte position, bytes>>
erasePartitionSignature(pStart, pEnd) ==
    <<pStart * EraseSectorBytes,
      (IF pEnd - pStart + 1 < EraseSectors THEN pEnd - pStart + 1 ELSE EraseSectors)
          * EraseSectorBytes>>

\* one turn of either loop: the free region, its aligned ends, the
\* partition added to the in-memory disk and the erase; st is
\* [status, parts, erased]
AddEntry(dev, label, st, pSize, pType, inPost) ==
    LET fr == getFreeRegion(dev, label, st.parts)
        region == fr.region
        pStart == alignUp(region.start, 0, grainSize(dev))
        pEnd == alignDown(region.end, grainSize(dev) - 1, grainSize(dev))
        sectorNum == sizeToSectors(pSize[1], pSize[2], dev.sectorSize)
        last == IF inPost THEN pEnd ELSE pStart + sectorNum - 1
        added == addPartitionStatus(label, pType)
    IN  IF fr.status # "ok" THEN [st EXCEPT !.status = fr.status]
        ELSE IF ~inPost /\ pEnd < pStart + sectorNum - 1
        THEN [st EXCEPT !.status = "Exception_NOT_ENOUGH_SPACE"]
        ELSE IF inPost /\ pSize # Star
        THEN [st EXCEPT !.status = "AssertionError_SIZED_AFTER_STAR"]
        ELSE IF added # "ok" THEN [st EXCEPT !.status = added]
        ELSE [status |-> "ok",
              parts |-> Append(st.parts, [start |-> pStart, end |-> last, pType |-> pType]),
              erased |-> Append(st.erased, erasePartitionSignature(pStart, pEnd))]

RECURSIVE AddEntries(_, _, _, _, _, _)
AddEntries(dev, label, st, list, i, inPost) ==
    IF i > Len(list) \/ st.status # "ok" THEN st
    ELSE AddEntries(dev, label, AddEntry(dev, label, st, list[i][1], list[i][2], inPost),
                    list, i + 1, inPost)

\* the positions of "*" in the list; the loop of lines 633-638 splits the
\* list at the first and asserts at a second
StarIndexes(partitionInfoList) ==
    {i \in DOMAIN partitionInfoList : partitionInfoList[i][1] = Star}

\* util.initializeDisk(devPath, partitionTableType, partitionInfoList):
\* [status, dev, parts, erased]
initializeDisk(dev, partitionTableType, partitionInfoList) ==
    LET label == IF partitionTableType = "mbr" THEN "msdos" ELSE partitionTableType
        stars == StarIndexes(partitionInfoList)
        split == IF stars = {} THEN Len(partitionInfoList) + 1
                 ELSE CHOOSE i \in stars : TRUE
        preList == SubSeq(partitionInfoList, 1, split - 1)
        postList == SubSeq(partitionInfoList, split, Len(partitionInfoList))
        fresh == [dev EXCEPT !.label = label, !.table = <<>>]
        st0 == [status |-> "ok", parts |-> <<>>, erased |-> <<>>]
        st1 == AddEntries(fresh, label, st0, preList, 1, FALSE)
        st2 == AddEntries(fresh, label, st1, postList, 1, TRUE)
    IN  IF Cardinality(stars) > 1
        THEN [status |-> "AssertionError_SECOND_STAR", dev |-> dev,
              parts |-> <<>>, erased |-> <<>>]
        ELSE IF st2.status # "ok"
        THEN [status |-> st2.status, dev |-> fresh,
              parts |-> st2.parts, erased |-> st2.erased]
        ELSE [status |-> "ok", dev |-> [fresh EXCEPT !.table = st2.parts],
              parts |-> st2.parts, erased |-> st2.erased]

\* --------------------------------------------- initializeDisk at work
MaxEntries == 3     \* entries of a partition list
MaxSizeMiB == 2     \* the largest explicit size, in MiB

DiskMiB == {4, 16}
DiskSectorSizes == {512, 4096}
EntrySizes == {<<n, "MiB">> : n \in 1..MaxSizeMiB} \cup {Star}
EntryTypes == {"", "swap", "esp"}
PartitionInfoLists ==
    UNION {[1..n -> EntrySizes \X EntryTypes] : n \in 1..MaxEntries}

\* a disk that carries one partition of an earlier msdos label
UsedDisks ==
    {[sectorSize |-> ss, length |-> m * (1048576 \div ss), label |-> "msdos",
      table |-> <<[start |-> FirstStart, end |-> 2 * FirstStart - 1, pType |-> "ext4"]>>] :
        ss \in DiskSectorSizes, m \in DiskMiB}

NoInitializeDisk ==
    [op |-> "none", partitionTableType |-> "none", partitionInfoList |-> <<>>,
     status |-> "none", parts |-> <<>>, erased |-> <<>>, pre |-> NoDevice]

InitDisk ==
    /\ LayoutIdle
    /\ blkdev \in UsedDisks
    /\ ucall = NoInitializeDisk

InitializeDisk ==
    /\ ucall.op = "none"
    /\ \E partitionTableType \in {"mbr", "gpt"}, partitionInfoList \in PartitionInfoLists :
        LET r == initializeDisk(blkdev, partitionTableType, partitionInfoList)
        IN  /\ blkdev' = r.dev
            /\ ucall' = [op |-> "initializeDisk",
                         partitionTableType |-> partitionTableType,
                         partitionInfoList |-> partitionInfoList,
                         status |-> r.status, parts |-> r.parts, erased |-> r.erased,
                         pre |-> blkdev]
    /\ UNCHANGED layoutVars

NextDisk == InitializeDisk

SpecDisk == InitDisk /\ [][NextDisk]_vars

\* ------------------------------------------------------------ claim C20
\* the list of the call: explicitly sized entries followed by one "*"
SizedThenStar ==
    LET l == ucall.partitionInfoList
    IN  /\ Len(l) >= 1
        /\ l[Len(l)][1] = Star
        /\ \A i \in 1..(Len(l) - 1) : l[i][1] # Star

\* its roles are roles of the table type ("esp" and "bcache" are GPT roles)
RolesOfTable ==
    \A i \in DOMAIN ucall.partitionInfoList :
        ucall.partitionInfoList[i][2] \in {"esp", "bcache"} => ucall.partitionTableType = "gpt"

Requested(i) ==
    sizeToSectors(ucall.partitionInfoList[i][1][1], ucall.partitionInfoList[i][1][2],
                  ucall.pre.sectorSize)

RECURSIVE RequestedUpTo(_)
RequestedUpTo(i) == IF i = 0 THEN 0 ELSE Requested(i) + RequestedUpTo(i - 1)

\* the sized entries, laid out from the first start on, leave more than two
\* alignment grains of the disk
SufficientlyLarge ==
    FirstStart + RequestedUpTo(Len(ucall.partitionInfoList) - 1)
        + 2 * grainSize(ucall.pre) <= ucall.pre.length

LaidOutInOrder ==
    LET l == ucall.partitionInfoList
        t == blkdev.table
        n == Len(l)
    IN  /\ ucall.status = "ok"
        /\ Len(t) = n
        /\ \A i \in 1..n : t[i].pType = l[i][2]
        /\ \A i \in 1..(n - 1) : t[i].end - t[i].start + 1 = Requested(i)
        /\ \A i \in 1..(n - 1) : t[i].start <= t[i].end /\ t[i].end < t[i + 1].start
        /\ t[n].start = (IF n = 1 THEN FirstStart ELSE t[n - 1].end + 1)
        /\ t[n].end >= t[n].start
        /\ LastUsable(blkdev, blkdev.label) - t[n].end < grainSize(blkdev)

\* C20: for a list of k explicitly sized entries followed by one "*" entry,
\* on a sufficiently large disk, initializeDisk leaves a table of exactly
\* k + 1 partitions in the order of the list, every sized partition of
\* exactly the requested number of sectors, no two overlapping, the last
\* one reaching from the end of its predecessor to the (aligned) end of the
\* free region.
C20_LaidOutInListOrder ==
    (ucall.op = "initializeDisk" /\ SizedThenStar /\ RolesOfTable /\ SufficientlyLarge)
        => LaidOutInOrder

\* a GPT of 512-byte sectors: esp, swap and the rest
C20_Witness ==
    /\ ucall.op = "initializeDisk"
    /\ ucall.partitionTableType = "gpt"
    /\ ucall.pre.sectorSize = 512
    /\ Len(ucall.partitionInfoList) = 3
    /\ ucall.partitionInfoList[1][2] = "esp"
    /\ ucall.partitionInfoList[2] = <<<<2, "MiB">>, "swap">>
    /\ SizedThenStar /\ SufficientlyLarge
    /\ LaidOutInOrder
    /\ blkdev.table[2].end - blkdev.table[2].start + 1 = 4096

\* what holds of the code: the claim for disks of 512-byte sectors and
\* lists without a swap entry for an msdos table
C20_LaidOutOn512 ==
    (/\ ucall.op = "initializeDisk" /\ SizedThenStar /\ RolesOfTable /\ SufficientlyLarge
     /\ ucall.pre.sectorSize = 512
     /\ ~(/\ ucall.partitionTableType = "mbr"
          /\ \E i \in DOMAIN ucall.partitionInfoList : ucall.partitionInfoList[i][2] = "swap"))
        => LaidOutInOrder

\* ------------------------------------------------------------ claim C21
\* at most one "*" in the list of the call, and nothing after it
StarLastIfAny ==
    LET l == ucall.partitionInfoList
    IN  \A i \in DOMAIN l : l[i][1] = Star => i = Len(l)

SizedCount ==
    Cardinality({i \in DOMAIN ucall.partitionInfoList : ucall.partitionInfoList[i][1] # Star})

\* the sectors of the one free region of the freshly labelled disk, from
\* the first start to the aligned end
AvailableSectors ==
    LET label == IF ucall.partitionTableType = "mbr" THEN "msdos" ELSE "gpt"
    IN  alignDown(LastUsable(ucall.pre, label), grainSize(ucall.pre) - 1, grainSize(ucall.pre))
            - FirstStart + 1

SizedDoNotFit == RequestedUpTo(SizedCount) > AvailableSectors

\* C21: when the explicitly sized entries do not fit in the free region of
\* the disk, initializeDisk fails with the "not enough space" error and the
\* table on the disk holds no partition: neither the one that failed nor
\* any of the entries before it.
C21_NoSpaceFailsCleanly ==
    (ucall.op = "initializeDisk" /\ StarLastIfAny /\ RolesOfTable /\ SizedDoNotFit)
        => /\ ucall.status = "Exception_NOT_ENOUGH_SPACE"
           /\ blkdev.table = <<>>

\* the second sized entry did not fit: the first one was added to the
\* in-memory disk only
C21_Witness ==
    /\ ucall.op = "initializeDisk"
    /\ StarLastIfAny /\ RolesOfTable /\ SizedDoNotFit
    /\ ucall.status = "Exception_NOT_ENOUGH_SPACE"
    /\ Len(ucall.parts) = 1
    /\ blkdev.table = <<>>

\* what holds of the code: the call fails, and nothing is committed
C21_NothingCommittedOnFailure ==
    (ucall.op = "initializeDisk" /\ ucall.status # "ok")
        => (blkdev.table = <<>> \/ blkdev = ucall.pre)

C21_FailsWhenNoSpace ==
    (ucall.op = "initializeDisk" /\ StarLastIfAny /\ SizedDoNotFit) => ucall.status # "ok"

\* =====================================================================
\* util.py: the bcache device lists read from /dev and /sys
\* (bcacheGetSlaveDevPathList, bcacheFindByBackingDevice).
\* A path is the sequence of its components.
\* =====================================================================

MaxBcache == 2       \* composed devices /dev/bcache0 .. existing at a time

BcacheNodeNames == <<"bcache0", "bcache1", "bcache2", "bcache3">>
BcacheNodes == {BcacheNodeNames[i] : i \in 1..Min(MaxBcache, Len(BcacheNodeNames))}

\* /dev/bcache, the directory udev keeps next to the nodes
BcacheDir == "bcache"

\* the block devices that may be a slave of a composed device
SlaveNames == {"sda2", "sdb2", "sdc3"}

DiskOf == [sda2 |-> "sda", sdb2 |-> "sdb", sdc3 |-> "sdc"]

basename(path) == path[Len(path)]
dirname(path) == SubSeq(path, 1, Len(path) - 1)
join(dir, name) == Append(dir, name)
DevDir == <<"dev">>
SysBlock(name) == <<"sys", "block", name>>

\* os.listdir(/sys/block/<name>/slaves): the names in the order the kernel
\* lists them
listdir(sys, path) == sys.slaves[path[3]]

\* os.path.realpath: /sys/block/bcacheN/bcache links to the bcache directory
\* of the backing device; a path that does not exist is returned as it is
realpath(sys, path) ==
    IF Len(path) = 4 /\ path[1] = "sys" /\ path[2] = "block" /\ path[4] = "bcache"
            /\ path[3] \in DOMAIN sys.backing
    THEN LET b == sys.backing[path[3]]
         IN  <<"sys", "devices", "block", DiskOf[b], b, "bcache">>
    ELSE path

\* glob.glob("/dev/bcache*"), in the order the directory gives
glob(sys) == [i \in DOMAIN sys.glob |-> join(DevDir, sys.glob[i])]

\* re.fullmatch("/dev/bcache[0-9]+", fn)
IsBcacheNode(fn) == Len(fn) = 2 /\ fn[1] = "dev" /\ fn[2] \in SeqToSet(BcacheNodeNames)

\* without the removal the backing device would be listed twice
PlaceBackingLast_append_only(retList, backingDevPath) == Append(retList, backingDevPath)

\* retList.remove(backingDevPath); retList.append(backingDevPath)
PlaceBackingLast(retList, backingDevPath) ==
    Append(RemoveFirst(retList, backingDevPath), backingDevPath)

bcacheGetSlaveDevPathList(sys, bcacheDevPath) ==
    LET slavePath == join(SysBlock(basename(bcacheDevPath)), "slaves")
        names == listdir(sys, slavePath)
        retList == [i \in DOMAIN names |-> join(DevDir, names[i])]
        bcachePath == realpath(sys, join(SysBlock(basename(bcacheDevPath)), "bcache"))
        backingDev == basename(dirname(bcachePath))
        backingDevPath == join(DevDir, backingDev)
    IN  IF backingDevPath \notin SeqToSet(retList)
        THEN [status |-> "ValueError", ret |-> <<>>]
        ELSE [status |-> "ok",
              ret |-> PlaceBackingLast(retList, backingDevPath)]

\* the path tested inside the loop is built from devPath, not from fn
BackingDevOf_fn(sys, fn, devPath) ==
    basename(dirname(realpath(sys, join(SysBlock(basename(fn)), "bcache"))))

BackingDevOf(sys, fn, devPath) ==
    basename(dirname(realpath(sys, join(SysBlock(basename(devPath)), "bcache"))))

RECURSIVE FindFrom(_, _, _, _)
FindFrom(sys, fns, i, devPath) ==
    IF i > Len(fns) THEN <<>>
    ELSE IF IsBcacheNode(fns[i]) /\ basename(devPath) = BackingDevOf(sys, fns[i], devPath)
         THEN fns[i]
         ELSE FindFrom(sys, fns, i + 1, devPath)

\* returns the path found, or <<>> for None
util_bcacheFindByBackingDevice(sys, devPath) == FindFrom(sys, glob(sys), 1, devPath)

\* ---- machine ----
\* the composed devices: each has one backing device and a set of cache
\* devices; a device backs at most one composed device and is not a cache
\* device at the same time
Backings(N) == {f \in [N -> SlaveNames] : \A m, n \in N : f[m] = f[n] => m = n}

ListingsOf(b, n) ==
    UNION {Perms({b[n]} \cup C) : C \in SUBSET (SlaveNames \ {b[m] : m \in DOMAIN b})}

SlaveListings(b) ==
    {s \in [DOMAIN b -> UNION {ListingsOf(b, n) : n \in DOMAIN b}]
        : \A n \in DOMAIN b : s[n] \in ListingsOf(b, n)}

GlobOrders(N) == UNION {Perms(N \cup D) : D \in SUBSET {BcacheDir}}

SysfsOver(N) ==
    UNION {{[kind |-> "sysfs", backing |-> b, slaves |-> s, glob |-> g]
                : s \in SlaveListings(b), g \in GlobOrders(N)} : b \in Backings(N)}

SysfsStates == UNION {SysfsOver(N) : N \in SUBSET BcacheNodes}

InitSysfs ==
    /\ LayoutIdle
    /\ blkdev \in SysfsStates
    /\ ucall = [op |-> "none", arg |-> <<>>, status |-> "none", ret |-> <<>>]

BcacheGetSlaveDevPathList ==
    /\ ucall.op = "none"
    /\ \E n \in DOMAIN blkdev.backing :
        LET r == bcacheGetSlaveDevPathList(blkdev, join(DevDir, n))
        IN  ucall' = [op |-> "bcacheGetSlaveDevPathList", arg |-> join(DevDir, n),
                      status |-> r.status, ret |-> r.ret]
    /\ UNCHANGED <<layoutVars, blkdev>>

BcacheFindByBackingDevice ==
    /\ ucall.op = "none"
    /\ \E p \in SlaveNames :
        ucall' = [op |-> "bcacheFindByBackingDevice", arg |-> join(DevDir, p),
                  status |-> "ok",
                  ret |-> util_bcacheFindByBackingDevice(blkdev, join(DevDir, p))]
    /\ UNCHANGED <<layoutVars, blkdev>>

NextSysfs == BcacheGetSlaveDevPathList \/ BcacheFindByBackingDevice

SpecSysfs == InitSysfs /\ [][NextSysfs]_vars

\* ------------------------------------------------------------ claim C22
CountIn(s, x) == Cardinality({i \in DOMAIN s : s[i] = x})

SlavesOf(n) == {join(DevDir, x) : x \in SeqToSet(blkdev.slaves[n])}

\* C22: the list returned for a composed device holds every slave of the
\* device exactly once, the backing device is the last element and the
\* cache devices come before it, in whatever order the kernel lists the
\* slaves.
C22_BackingDeviceLast ==
    ucall.op = "bcacheGetSlaveDevPathList" =>
        LET n == basename(ucall.arg)
            ret == ucall.ret
        IN  /\ ucall.status = "ok"
            /\ SeqToSet(ret) = SlavesOf(n)
            /\ \A x \in SlavesOf(n) : CountIn(ret, x) = 1
            /\ ret[Len(ret)] = join(DevDir, blkdev.backing[n])

\* the kernel listed the backing device first, with two cache devices
\* after it
C22_Witness ==
    /\ ucall.op = "bcacheGetSlaveDevPathList"
    /\ Len(blkdev.slaves[basename(ucall.arg)]) = 3
    /\ blkdev.slaves[basename(ucall.arg)][1] = blkdev.backing[basename(ucall.arg)]
    /\ ucall.ret[3] = join(DevDir, blkdev.backing[basename(ucall.arg)])

\* ------------------------------------------------------------ claim C23
ComposedOf(p) == {n \in DOMAIN blkdev.backing : blkdev.backing[n] = p}

\* C23: bcacheFindByBackingDevice(p) returns the composed device whose
\* backing-device link points to p, and None when no composed device is
\* backed by p; with several composed devices it never returns one backed
\* by another partition.
C23_FindsOwnComposedDevice ==
    ucall.op = "bcacheFindByBackingDevice" =>
        LET p == basename(ucall.arg)
        IN  IF ComposedOf(p) = {}
            THEN ucall.ret = <<>>
            ELSE ucall.ret \in {join(DevDir, n) : n \in ComposedOf(p)}

\* the device asked for backs the only composed device, and is found
C23_Witness ==
    /\ ucall.op = "bcacheFindByBackingDevice"
    /\ Cardinality(DOMAIN blkdev.backing) = 1
    /\ ComposedOf(basename(ucall.arg)) # {}
    /\ ucall.ret = join(DevDir, CHOOSE n \in DOMAIN blkdev.backing : TRUE)

\* what holds of the code: the first node of the glob is returned whatever
\* device is asked for, and None only when there is no node at all
C23_FirstNodeOfTheGlob ==
    ucall.op = "bcacheFindByBackingDevice" =>
        LET nodes == {i \in DOMAIN blkdev.glob : blkdev.glob[i] # BcacheDir}
        IN  IF nodes = {}
            THEN ucall.ret = <<>>
            ELSE ucall.ret = join(DevDir, blkdev.glob[CHOOSE i \in nodes : \A j \in nodes : i <= j])

\* =====================================================================
\* Further claims on the layout drivers (specification Spec)
\* =====================================================================

\* ------------------------------------------------------------ claim C24
\* the partitions an add_disk turned into a bcache / bcachefs device or
\* added to the filesystem
PartitionsActedOn ==
    {call.ops[i].dev : i \in {j \in DOMAIN call.ops :
        call.ops[j].name \in {"makeAndRegisterBackingDevice", "makeDevice",
                              "bcachefs_device_add"}}}

AddsHdd == call.op = "add_disk" /\ call.disk \in Hdds

\* C24: add_disk of an HDD, in both variants, turns the data partition
\* (partition 2) of the disk just added into the backing device, and no
\* other partition: never the SSD's cache partition, never a partition of
\* another disk.
C24_AddHddActsOnItsDataPartition ==
    (AddsHdd /\ PartitionsActedOn # {}) =>
        /\ PartitionsActedOn = {devPathDiskToPartition(call.disk, 2)}
        /\ call.disk \in Members(cg)

\* the bcachefs driver added the data partition of the new HDD
C24_Witness ==
    /\ variant = "bcachefs" /\ AddsHdd /\ Completed
    /\ PartitionsActedOn = {devPathDiskToPartition(call.disk, 2)}
    /\ devPathDiskToPartition(call.disk, 2) \in phys.fsDevs
    /\ call.disk \in Members(cg) \ Members(call.pre)

\* what holds of the bcachefs variant alone
C24_BcachefsActsOnDataPartition ==
    (variant = "bcachefs" /\ AddsHdd /\ PartitionsActedOn # {}) =>
        PartitionsActedOn = {devPathDiskToPartition(call.disk, 2)}

\* ------------------------------------------------------------ claim C25
CreatesWithoutSsd ==
    /\ variant = "bcache_lvm" /\ call.op = "create_and_mount"
    /\ call.ssd_list = <<>> /\ call.hdd_list # <<>>
    /\ cgGetSsdAndHddList(call.ssd_list, call.hdd_list) = "ok"
    /\ call.failAt = 0

CacheOps == {"makeAndRegisterCacheDevice", "attachCacheDevice"}

\* C25: create_and_mount of the bcache+LVM variant on a disk list with no
\* SSD and at least one HDD completes when every tool succeeds, issues no
\* operation on a cache device, and yields an HDD-only group whose boot
\* disk is the first HDD.
C25_CreateWithoutSsd ==
    CreatesWithoutSsd =>
        /\ Completed
        /\ \A i \in DOMAIN call.ops : call.ops[i].name \notin CacheOps
        /\ created /\ cg.ssd = None
        /\ cg.hddList = call.hdd_list
        /\ boot_disk(cg) = call.hdd_list[1]

\* the call was made on HDDs only, and their backing devices were made
C25_Witness ==
    /\ CreatesWithoutSsd
    /\ Issued("makeAndRegisterBackingDevice")
    /\ phys.backingDevs # {}

\* what holds of the code: without an SSD the call never completes
C25_CreateWithoutSsdStops ==
    CreatesWithoutSsd => (call.status = "TypeError" /\ ~created /\ ~phys.mounted)

\* ------------------------------------------------------------ claim C26
\* C26: in the bcache+LVM variant, after every completed create_and_mount,
\* add_disk and remove_disk, the backing device of every HDD of a group
\* with an SSD is attached to the SSD's cache device, and in a group
\* without SSD no backing device is attached to a cache device.
C26_AttachmentInvariant ==
    (variant = "bcache_lvm" /\ created /\ Completed
            /\ call.op \in {"create_and_mount", "add_disk", "remove_disk"}) =>
        IF cg.ssd # None
        THEN /\ cg.ssdCacheParti \in phys.cacheDevs
             /\ DataPartitions(cg) \subseteq phys.attached
        ELSE phys.attached = {}

\* an SSD was added to a group of one HDD, whose backing device got
\* attached to the new cache device
C26_Witness ==
    /\ variant = "bcache_lvm" /\ call.op = "add_disk" /\ Completed
    /\ call.disk \in Ssds /\ cg.ssd = call.disk
    /\ call.pre.ssd = None
    /\ DataPartitions(cg) # {} /\ DataPartitions(cg) \subseteq phys.attached

\* create_and_mount with an SSD completes with nothing attached
C26_CreateAttachesNothing ==
    (variant = "bcache_lvm" /\ call.op = "create_and_mount" /\ Completed) =>
        (cg.ssd # None /\ phys.attached = {})

\* ------------------------------------------------------------ claim C27
\* C27: add_disk of a device that is not in the list of fixed disks fails
\* with the NOT_DISK error, in both variants, with the model as it was and
\* no physical operation issued.
C27_NotDiskRejectedFirst ==
    (call.op = "add_disk" /\ call.disk \notin Ssds \cup Hdds) =>
        /\ call.status = "AddDiskError_NOT_DISK"
        /\ cg = call.pre
        /\ call.ops = <<>>

\* a USB disk was offered to a bcache+LVM group
C27_Witness ==
    /\ variant = "bcache_lvm" /\ call.op = "add_disk" /\ call.disk = UsbDisk
    /\ call.status = "AddDiskError_NOT_DISK"
    /\ cg = call.pre /\ cg.hddList # <<>>

\* the same for a bcachefs group
C27_WitnessBcachefs ==
    /\ variant = "bcachefs" /\ call.op = "add_disk" /\ call.disk = UsbDisk
    /\ call.status = "AddDiskError_NOT_DISK"
    /\ cg = call.pre /\ cg.hddList # <<>>

\* the physical state is the one before the call
C27_NotDiskLeavesPhysical ==
    [][(call'.op = "add_disk" /\ call'.disk \notin Ssds \cup Hdds /\ call' # call)
            => phys' = phys]_vars

\* ------------------------------------------------------------ claim C28
AddsHddToGroup ==
    /\ AddsHdd /\ call.disk \notin Members(call.pre)
    /\ (call.pre.hddList # <<>> \/ call.pre.ssd # None)

HddAppended ==
    /\ cg.hddList = Append(call.pre.hddList, call.disk)
    /\ cg.ssd = call.pre.ssd
    /\ cg.bootHdd = call.pre.bootHdd
    /\ boot_disk(cg) = boot_disk(call.pre)

\* C28: add_disk of an HDD on a group that has an HDD or an SSD, with every
\* tool succeeding, appends the HDD at the end of hddList, leaves ssd,
\* bootHdd and the order of the earlier HDDs as they were, and returns
\* false.
C28_AddHddKeepsBootDisk ==
    (AddsHddToGroup /\ call.failAt = 0) =>
        /\ HddAppended
        /\ Completed
        /\ call.ret = FALSE

\* the bcachefs driver appended a second HDD and answered false
C28_Witness ==
    /\ variant = "bcachefs" /\ AddsHddToGroup /\ Completed
    /\ Len(cg.hddList) >= 2 /\ HddAppended
    /\ call.ret = FALSE

\* what holds of both variants: the model transition, whenever the call
\* got as far as a physical operation
C28_ModelAppendsHdd ==
    (AddsHddToGroup /\ call.ops # <<>>) => HddAppended

\* what holds of the bcachefs variant: the whole statement
C28_BcachefsAddHdd ==
    (variant = "bcachefs" /\ AddsHddToGroup /\ call.failAt = 0) =>
        (HddAppended /\ Completed /\ call.ret = FALSE)

\* ------------------------------------------------------------ claim C29
\* remove_disk(d) completed right after an add_disk(d) that recorded d in
\* the group
RemovedAfterAdd ==
    /\ call.op = "remove_disk" /\ Completed
    /\ call.undoes # NoAdd /\ call.pre # call.undoes.pre

SsdFields(g) == <<g.ssd, g.ssdEspParti, g.ssdSwapParti, g.ssdCacheParti>>

\* C29 as stated: add_disk(d) and then remove_disk(d), both completed,
\* leave ssd, the SSD partitions, hddList and bootHdd as they were before
\* the add, for an HDD d and for an SSD d, whatever the bootHdd was.
C29_AddThenRemoveRestores ==
    (RemovedAfterAdd /\ call.undoes.status = "ok") => cg = call.undoes.pre

\* C29, amended: an add_disk(d) that recorded d, completed or not, and then
\* a completed remove_disk(d) leave ssd, the SSD partitions and hddList as
\* they were before the add; bootHdd is as before for an HDD d, and is
\* hddList[0] for an SSD d, so it is restored only when it was hddList[0].
C29_RoundTripUpToBootHdd ==
    RemovedAfterAdd =>
        /\ SsdFields(cg) = SsdFields(call.undoes.pre)
        /\ cg.hddList = call.undoes.pre.hddList
        /\ cg.bootHdd = IF call.disk \in Ssds
                        THEN call.undoes.pre.hddList[1]
                        ELSE call.undoes.pre.bootHdd

\* an SSD was added to and removed from a group whose bootHdd was its
\* second HDD
C29_Witness ==
    /\ RemovedAfterAdd /\ call.undoes.status = "ok"
    /\ call.disk \in Ssds
    /\ Len(call.undoes.pre.hddList) = 2
    /\ call.undoes.pre.bootHdd = call.undoes.pre.hddList[2]
    /\ cg.bootHdd = cg.hddList[1]

\* an HDD was added and removed
C29_WitnessHdd ==
    /\ RemovedAfterAdd /\ call.disk \in Hdds
    /\ cg = call.undoes.pre

\* ------------------------------------------------------------ claim C30
RemovesStranger ==
    /\ call.op = "remove_disk"
    /\ call.disk # call.pre.ssd
    /\ call.disk \notin Members(call.pre)

\* C30: remove_disk of a disk that is neither the SSD of the group nor one
\* of its HDDs stops on an assertion, in both variants, with the model as
\* it was and no physical operation issued.
C30_RemoveOfStrangerAsserts ==
    RemovesStranger =>
        /\ call.status = "AssertionError"
        /\ cg = call.pre
        /\ call.ops = <<>>

\* the removal of an HDD outside the group was asked of a bcache+LVM group
C30_Witness ==
    /\ variant = "bcache_lvm" /\ RemovesStranger /\ call.disk \in Hdds
    /\ call.status = "AssertionError" /\ cg.hddList # <<>>

\* the same for a bcachefs group with an SSD
C30_WitnessBcachefs ==
    /\ variant = "bcachefs" /\ RemovesStranger /\ call.pre.ssd # None
    /\ call.status = "AssertionError"

\* the physical state is the one before the call
C30_StrangerLeavesPhysical ==
    [][(call' # call /\ call'.op = "remove_disk" /\ call'.disk # cg.ssd
            /\ call'.disk \notin Members(cg)) => phys' = phys]_vars

\* =====================================================================
\* Further claims on the bcache superblock (specification SpecBcache)
\* =====================================================================

\* ------------------------------------------------------------ claim C31
\* struct cache_sb, as the format string lays it out: the item of
\* bcacheSbFmt that holds each field
CacheSbItem ==
    [csum |-> 1, offset |-> 2, version |-> 3, magic |-> 4, uuid |-> 5, set_uuid |-> 6,
     label |-> 7, flags |-> 8, seq |-> 9, pad |-> 10, nbuckets |-> 11, data_offset |-> 11,
     block_size |-> 12, bucket_size |-> 13, nr_in_set |-> 14, nr_this_dev |-> 15,
     last_mount |-> 16, first_bucket |-> 17, keys |-> 18]

CacheSbOffset(name) == FieldOffset(bcacheSbFmt, CacheSbItem[name])
CacheSbSize(name) ==
    bcacheSbFmt[CacheSbItem[name]][1] * SizeOf(bcacheSbFmt[CacheSbItem[name]][2])

MadeFields == ucall.made.fields
MadeOffset(name) ==
    LET i == CHOOSE k \in DOMAIN MadeFields : MadeFields[k][1] = name
    IN  MadeFields[i][2]

\* the bytes a packed field takes, and those of a field of the record
BytesOf(f) == f[2]..(f[2] + f[3] - 1)
RecordBytes(name) == CacheSbOffset(name)..(CacheSbOffset(name) + CacheSbSize(name) - 1)

\* every packed field is at the offset the record gives it
AtRecordOffsets ==
    \A i \in DOMAIN MadeFields :
        /\ MadeFields[i][2] = CacheSbOffset(MadeFields[i][1])
        /\ MadeFields[i][3] = CacheSbSize(MadeFields[i][1])

\* no packed field takes a byte of another field of the record
NoOverlap ==
    \A i \in DOMAIN MadeFields : \A name \in DOMAIN CacheSbItem :
        (CacheSbItem[name] # CacheSbItem[MadeFields[i][1]])
            => BytesOf(MadeFields[i]) \cap RecordBytes(name) = {}

\* C31: in the superblock bcacheMakeDevice wrote, for a backing device as
\* for a cache device, every field is at its offset of struct cache_sb
\* (block_size, bucket_size and first_bucket among them), and no written
\* field takes bytes of another field (first_bucket is not inside
\* last_mount).
C31_FieldsAtRecordOffsets ==
    MadeOk => (AtRecordOffsets /\ NoOverlap)

\* a cache device was made: first_bucket is where the record has it
C31_Witness ==
    /\ MadeOk /\ ~ucall.made.role
    /\ AtRecordOffsets /\ NoOverlap
    /\ MadeOffset("first_bucket") = CacheSbOffset("first_bucket")

\* what holds of the code: a cache device is laid out as the record; on a
\* backing device block_size and bucket_size are at the record's offsets
\* and first_bucket is two bytes early, on the last two bytes of last_mount
C31_BackingFirstBucketShifted ==
    MadeOk =>
        /\ MadeOffset("block_size") = CacheSbOffset("block_size")
        /\ MadeOffset("bucket_size") = CacheSbOffset("bucket_size")
        /\ ~ucall.made.role => (AtRecordOffsets /\ NoOverlap)
        /\ ucall.made.role =>
            /\ MadeOffset("first_bucket") = CacheSbOffset("first_bucket") - 2
            /\ BytesOf(<<"first_bucket", MadeOffset("first_bucket"), 2>>)
                    \subseteq RecordBytes("last_mount")

\* =====================================================================
\* Further claims on initializeDisk (specification SpecDisk)
\* =====================================================================

\* ------------------------------------------------------------ claim C32
InitializeDiskOk == ucall.op = "initializeDisk" /\ ucall.status = "ok"

PartitionLength(part) == part.end - part.start + 1

\* the bytes of a partition on the disk of the call, and the bytes an
\* erase wrote
PartitionFirstByte(part) == part.start * ucall.pre.sectorSize
PartitionEndByte(part) == (part.end + 1) * ucall.pre.sectorSize
ErasedFirstByte(e) == e[1]
ErasedEndByte(e) == e[1] + e[2]

ErasedAsClaimed(i) ==
    LET part == ucall.parts[i]
        e == ucall.erased[i]
    IN  /\ ErasedFirstByte(e) = PartitionFirstByte(part)
        /\ e[2] = Min(EraseSectors, PartitionLength(part)) * ucall.pre.sectorSize
        /\ ErasedEndByte(e) <= PartitionEndByte(part)

\* C32: for every partition a completed initializeDisk created, sized or
\* "*", the zero-filled bytes start at the first sector of the partition,
\* cover min(32, partition length) sectors and do not pass the end of the
\* partition.
C32_ErasedPrefixOfPartition ==
    InitializeDiskOk =>
        /\ Len(ucall.erased) = Len(ucall.parts)
        /\ \A i \in DOMAIN ucall.parts : ErasedAsClaimed(i)

\* a sized partition and a "*" partition were created on a disk of
\* 512-byte sectors, each with its first 32 sectors zero-filled
C32_Witness ==
    /\ InitializeDiskOk /\ ucall.pre.sectorSize = 512
    /\ Len(ucall.parts) = 2 /\ SizedThenStar
    /\ \A i \in DOMAIN ucall.parts : ErasedAsClaimed(i)

\* what holds of the code: on disks of 512-byte sectors the statement holds
C32_ErasedPrefixOn512 ==
    (InitializeDiskOk /\ ucall.pre.sectorSize = 512) =>
        \A i \in DOMAIN ucall.parts : ErasedAsClaimed(i)

\* and on every disk the erase is of 32 * 512 bytes from byte 512 * start
C32_ErasedIn512ByteUnits ==
    InitializeDiskOk =>
        \A i \in DOMAIN ucall.parts :
            ucall.erased[i] = <<ucall.parts[i].start * EraseSectorBytes,
                                EraseSectors * EraseSectorBytes>>

\* ------------------------------------------------------------ claim C33
StarsOfCall == StarIndexes(ucall.partitionInfoList)
OneStar == Cardinality(StarsOfCall) = 1
StarIndex == CHOOSE i \in StarsOfCall : TRUE
SizedAfterStar == OneStar /\ StarIndex < Len(ucall.partitionInfoList)

RequestedAt(i) == IF i \in StarsOfCall THEN 0 ELSE Requested(i)

RECURSIVE RequestedOfAll(_)
RequestedOfAll(i) == IF i = 0 THEN 0 ELSE RequestedAt(i) + RequestedOfAll(i - 1)

\* the sized entries of the list and two alignment grains more fit on the
\* disk
RoomForAll ==
    FirstStart + RequestedOfAll(Len(ucall.partitionInfoList))
        + 2 * grainSize(ucall.pre) <= ucall.pre.length

\* a second "*" stops the call with the disk as it was
SecondStarRejected ==
    Cardinality(StarsOfCall) > 1 =>
        /\ ucall.status = "AssertionError_SECOND_STAR"
        /\ blkdev = ucall.pre

\* the call completed with one partition per entry, those of the entries
\* before the "*" first and in the order of the list
AllApplied ==
    /\ ucall.status = "ok"
    /\ Len(blkdev.table) = Len(ucall.partitionInfoList)
    /\ \A i \in 1..(StarIndex - 1) :
          /\ blkdev.table[i].pType = ucall.partitionInfoList[i][2]
          /\ blkdev.table[i].end < blkdev.table[StarIndex].start

\* C33: a list with more than one "*" is rejected before the partition
\* table of the disk is wiped; with exactly one "*", on a disk with room
\* for the sized entries, the call completes, also when sized entries
\* follow the "*", and the "*" entry and the entries after it are applied
\* after the sized entries before it.
C33_StarSentinel ==
    ucall.op = "initializeDisk" =>
        /\ SecondStarRejected
        /\ (OneStar /\ RolesOfTable /\ RoomForAll) => AllApplied

\* two sized entries and a closing "*" on a GPT of 512-byte sectors
C33_Witness ==
    /\ ucall.op = "initializeDisk" /\ ucall.pre.sectorSize = 512
    /\ OneStar /\ StarIndex = 3 /\ RoomForAll
    /\ AllApplied

\* a list with two "*" met a disk that carried a partition table
C33_WitnessSecondStar ==
    /\ ucall.op = "initializeDisk" /\ Cardinality(StarsOfCall) = 2
    /\ ucall.status = "AssertionError_SECOND_STAR"
    /\ blkdev = ucall.pre /\ blkdev.table # <<>>

\* what holds of the code: the second "*" is rejected with the disk
\* untouched
C33_SecondStarLeavesDisk == ucall.op = "initializeDisk" => SecondStarRejected

\* and a call whose list has an entry after the "*" never completes: the
\* old table is wiped and no partition is committed
C33_EntryAfterStarFails ==
    (ucall.op = "initializeDisk" /\ SizedAfterStar) =>
        /\ ucall.status # "ok"
        /\ blkdev.table = <<>>

====
